---- MODULE Spec2Model ----
(***************************************************************************)
(* ExperienceMe: a client-side marketplace front-end.  Every page is a     *)
(* script that reacts to DOM events and talks to a hosted data platform    *)
(* (auth, tables, storage).  The model keeps the platform's tables, the    *)
(* browser's local storage and each page's script state, and has one       *)
(* action per handler step: a handler runs to its next await as one        *)
(* action, and the reply of the awaited call is the next action.           *)
(*                                                                         *)
(* Sections                                                                *)
(*   A  budget buckets (finder.js, experiences.js)                         *)
(*   B  browsing: finder, experiences, detail and user dashboard pages     *)
(*   C  metrics: visitor session, event_metric, the booking button         *)
(*   E  the navigation gate of the public pages                            *)
(* Each section has its own specification; the other sections' variables   *)
(* stay at their Off values while it runs.                                 *)
(***************************************************************************)
EXTENDS Integers, Sequences, FiniteSets, Bags, TLC

VARIABLES
  probe,         \* A: one price run through the four budget predicates
  identity,      \* B: the signed-in auth user's id, "" when signed out
  experiences,   \* B: table experiences, experience_id -> row
  links,         \* B: table experience_category, <<experience_id, category_id>>
  favorite,      \* B: table favorite, rows of the signed-in user per experience
  page,          \* B: the page the browser shows
  state,         \* B: finder.js `state` (type, county, budget)
  controls,      \* B: experiences.js filter inputs (search, category, county, budget)
  req,           \* B: the handler invocation in flight and where it awaits
  results,       \* B: #matchesList / #experiencesGrid / detail view
  favoriteExperienceIds, \* B: user.js favoriteExperienceIds
  favoritesList, \* B: #favoritesList
  togHist,       \* B: the completed favorite toggles of this page load
  favShown,      \* B: where the favorite state on screen came from
  isFavorited,   \* B: detailed_experience.js isFavorited
  clock,         \* C: Date.now(), in ticks of TickMs
  localStorage,  \* C: visitor_session_id and the de-dup timestamps
  event_metric,  \* C: table event_metric, a bag of rows
  mpage,         \* C: the page whose metrics code is loaded
  mreq,          \* C: the metrics handler in flight and where it awaits
  onceLog,       \* C: the last completed log...Once calls per kind and experience
  click,         \* C: the last click on the booking button
  roleRow,       \* E: users.role of the signed-in identity, "" when no row or null
  navPage,       \* E: the page whose navigation gate runs
  nav,           \* E: style.display of navGuest, navUser, navBusiness
  gate,          \* E: the gate in flight and where it awaits
  view,          \* F: the last value a page rendered and what came out
  dash,          \* G: the dashboard page's load handler and its redirect
  createForm,    \* G: the business dashboard's create form and its submit
  shownText,     \* G: the messages put in the page or in an alert
  issued,        \* G: the data loads the dashboard has issued
  profileForm,   \* G: the profile form's save in flight
  overlap,       \* H: the result loads in flight on a list page
  toggles,       \* I: overlapping favorite toggles of one card
  route,         \* J: the pages a signed-in browser is redirected through
  biz,           \* K: the create/edit form, the profile form and the rows they save
  admin          \* L: the admin dashboard's hash and visible sections

varsA == <<probe>>
varsB == <<identity, experiences, links, favorite, page, state, controls, req,
           results, favoriteExperienceIds, favoritesList, togHist, favShown,
           isFavorited>>
varsC == <<clock, localStorage, event_metric, mpage, mreq, onceLog, click>>
varsE == <<roleRow, navPage, nav, gate>>
varsF == <<view>>
varsG == <<dash, createForm, shownText, issued, profileForm>>
varsH == <<overlap>>
varsI == <<toggles>>
varsJ == <<route>>
varsK == <<biz>>
varsL == <<admin>>
vars == <<varsA, varsB, varsC, varsE, varsF, varsG, varsH, varsI, varsJ, varsK, varsL>>

\* The variables outside each section.
notA == <<varsB, varsC, varsE, varsF, varsG, varsH, varsI, varsJ, varsK,
         varsL>>
notB == <<varsA, varsC, varsE, varsF, varsG, varsH, varsI, varsJ, varsK,
         varsL>>
notC == <<varsA, varsB, varsE, varsF, varsG, varsH, varsI, varsJ, varsK,
         varsL>>
notE == <<varsA, varsB, varsC, varsF, varsG, varsH, varsI, varsJ, varsK,
         varsL>>
notF == <<varsA, varsB, varsC, varsE, varsG, varsH, varsI, varsJ, varsK,
         varsL>>
\* Outside G the role row and the identity are read, not written.
notG == <<varsA, varsB, varsC, varsE, varsF, varsH, varsI, varsJ, varsK,
         varsL>>
notH == <<varsA, varsB, varsC, varsE, varsF, varsG, varsI, varsJ, varsK,
         varsL>>
notI == <<varsA, varsB, varsC, varsE, varsF, varsG, varsH, varsJ, varsK,
         varsL>>
notJ == <<varsA, varsB, varsC, varsE, varsF, varsG, varsH, varsI, varsK,
         varsL>>
notK == <<varsA, varsB, varsC, varsE, varsF, varsG, varsH, varsI, varsJ,
         varsL>>
notL == <<varsA, varsB, varsC, varsE, varsF, varsG, varsH, varsI, varsJ,
         varsK>>

\* What an awaited platform call can do: resolve with data, resolve with an
\* error object, or reject.
Outcomes == {"ok", "error", "throw"}

\* -------------------------------------------------------------------------
\* A. Budget buckets
\* -------------------------------------------------------------------------

\* Largest min_price probed, in euro.
MaxPrice == 210

\* The four values of the budget <select>.
Buckets == {"under_50", "50_100", "100_200", "200_plus"}

\* finder.js fetchMatches: the four successive `if (budget === ...)` lines,
\* each adding its comparisons to the query; a value of p passes when every
\* comparison added for `budget` holds.
FinderBudgetAccepts(budget, p) ==
  /\ (budget = "under_50" => p <= 50)
  /\ (budget = "50_100"   => p >= 50 /\ p <= 100)
  /\ (budget = "100_200"  => p >= 100 /\ p <= 200)
  /\ (budget = "200_plus" => p >= 200)

\* experiences.js loadExperiences: the same four lines inside `if (budget)`.
ExperiencesBudgetAccepts(budget, p) ==
  budget # "" =>
    /\ (budget = "under_50" => p <= 50)
    /\ (budget = "50_100"   => p >= 50 /\ p <= 100)
    /\ (budget = "100_200"  => p >= 100 /\ p <= 200)
    /\ (budget = "200_plus" => p >= 200)

BudgetPages == {"finder", "experiences"}

PageBudgetAccepts(pg, budget, p) ==
  IF pg = "finder" THEN FinderBudgetAccepts(budget, p)
                   ELSE ExperiencesBudgetAccepts(budget, p)

\* The page's query is run once with bucket b selected, against a record whose
\* min_price is probe.price.
ProbeBucket(b) ==
  /\ b \notin probe.tried
  /\ UNCHANGED notA
  /\ probe' = [probe EXCEPT
                 !.tried = @ \cup {b},
                 !.accepted = IF PageBudgetAccepts(probe.page, b, probe.price)
                              THEN @ \cup {b} ELSE @]

\* -------------------------------------------------------------------------
\* B. Browsing pages: data
\* -------------------------------------------------------------------------

\* finder.js TYPES (label -> key) and TYPE_TO_CATEGORY_ID (key -> category id).
TYPES ==
  { [label |-> "Food & drink",      key |-> "food"],
    [label |-> "Outdoors",          key |-> "outdoors"],
    [label |-> "Wellness",          key |-> "wellness"],
    [label |-> "Adventure",         key |-> "adventure"],
    [label |-> "Arts & creativity", key |-> "arts"] }

TYPE_TO_CATEGORY_ID ==
  [ food      |-> "b97c14aa",
    outdoors  |-> "50f6b39a",
    wellness  |-> "da794edb",
    adventure |-> "cd35ad00",
    arts      |-> "f9a0e772" ]

TypeLabels == {t.label : t \in TYPES}
CategoryIds == {TYPE_TO_CATEGORY_ID[t.key] : t \in TYPES}

\* Rows of table county.
Counties == {"Dublin", "Cork"}

\* The experience ids of the store: three fixed rows and one row "v" whose
\* fields Init draws from every combination.
Exp == {"f1", "f2", "f3", "v"}

StatusValues == {"draft", "pending", "approved", "Approved", "rejected"}

\* String.prototype.toLowerCase on the status values.
Lower(s) == IF s = "Approved" THEN "approved" ELSE s

\* A min_price is the empty set (SQL null) or a one-element set.
NullPrice == {}

Titles == {"Kayak tour", "Pottery class"}
Descriptions == {"Sea KAYAKING day", "Wheel throwing"}
SearchTexts == {"", "kayak"}

\* Postgres `field ILIKE '%text%'` on the strings above.
ILike(field, text) ==
  \/ text = ""
  \/ text = "kayak" /\ field \in {"Kayak tour", "Sea KAYAKING day"}

FixedRows ==
  [ f1 |-> [status |-> "approved", is_published |-> TRUE, county |-> "Dublin",
            min_price |-> {50}, title |-> "Kayak tour",
            event_description |-> "Wheel throwing"],
    f2 |-> [status |-> "Approved", is_published |-> TRUE, county |-> "Dublin",
            min_price |-> {100}, title |-> "Pottery class",
            event_description |-> "Sea KAYAKING day"],
    f3 |-> [status |-> "approved", is_published |-> TRUE, county |-> "Cork",
            min_price |-> {200}, title |-> "Pottery class",
            event_description |-> "Wheel throwing"] ]

FixedLinks ==
  { <<"f1", TYPE_TO_CATEGORY_ID.outdoors>>,
    <<"f2", TYPE_TO_CATEGORY_ID.outdoors>>,
    <<"f3", TYPE_TO_CATEGORY_ID.outdoors>>,
    <<"f3", TYPE_TO_CATEGORY_ID.food>> }

VaryingRows ==
  [ status : StatusValues, is_published : BOOLEAN, county : {"Dublin"},
    min_price : {NullPrice, {50}, {150}}, title : {"Kayak tour"},
    event_description : {"Wheel throwing"} ]

VaryingLinks ==
  SUBSET { <<"v", TYPE_TO_CATEGORY_ID.wellness>> }

\* finder.js: `state` without the two fields no query reads.
FinderState0 == [type |-> "", county |-> "", budget |-> ""]
\* experiences.js: the filter inputs as the markup has them.
Controls0 == [searchText |-> "", categoryId |-> "", county |-> "", budget |-> ""]

NoFilters == [searchText |-> "", categoryId |-> "", county |-> "", budget |-> ""]

\* No handler in flight.
Req0 == [pc |-> "idle", filters |-> NoFilters, ids |-> {}, linked |-> FALSE,
         mainQueries |-> 0, exp |-> "", op |-> "", inToggle |-> FALSE,
         before |-> 0, hadBefore |-> FALSE, fresh |-> FALSE,
         mutOk |-> FALSE]

\* A result container: kind is "markup" (untouched), "loading", "none",
\* "error" or "cards"; ids are the experiences whose cards it holds.
Results0 == [kind |-> "markup", ids |-> {}]

Pages == {"finder", "experiences", "detail", "user", "login"}

\* The section's variables while another section's specification runs, the
\* identity apart.
OffBrowsing ==
  /\ experiences = [e \in Exp |-> IF e = "v" THEN
                      [status |-> "draft", is_published |-> FALSE,
                       county |-> "Dublin", min_price |-> NullPrice,
                       title |-> "Kayak tour",
                       event_description |-> "Wheel throwing"]
                    ELSE FixedRows[e]]
  /\ links = FixedLinks
  /\ favorite = [e \in Exp |-> 0]
  /\ page = "login"
  /\ state = FinderState0
  /\ controls = Controls0
  /\ req = Req0
  /\ results = Results0
  /\ favoriteExperienceIds = {}
  /\ favoritesList = Results0
  /\ togHist = <<>>
  /\ favShown = "markup"
  /\ isFavorited = FALSE

OffB == identity = "" /\ OffBrowsing

\* -------------------------------------------------------------------------
\* B. Queries
\* -------------------------------------------------------------------------

\* finder.js / experiences.js getExperienceIdsForCategory: the experience ids
\* the link table holds for categoryId.
LinkedIds(categoryId) == {l[1] : l \in {k \in links : k[2] = categoryId}}

\* A composer that goes on to the main query whatever the link table held.
LinkNeverShortCircuits(ids) == FALSE

\* finder.js:280, experiences.js:278 `if (!categoryExperienceIds.length)`.
LinkShortCircuit(ids) == ids = {}

\* .in('status', ['approved', 'Approved']) of fetchMatches.
FinderStatuses == {"approved", "Approved"}
\* .in('status', ['approved', 'Approved']) of loadExperiences.
ExperiencesStatuses == {"approved", "Approved"}
\* .eq('status', 'approved') of loadAndRenderExperience.
DetailStatuses == {"approved"}
\* A favorites filter that forgets the publish flag.
FavoriteSafeStatusOnly(row) == row.status = "approved"

\* user.js loadFavorites: e.status === 'approved' && e.is_published === true.
FavoriteSafe(row) == row.status = "approved" /\ row.is_published = TRUE

\* A comparison on min_price never holds of a null; a budget that is none of
\* the four values adds no comparison.
BudgetRowPasses(pg, budget, mp) ==
  IF budget \in Buckets THEN \E p \in mp : PageBudgetAccepts(pg, budget, p)
                        ELSE TRUE

\* The rows fetchMatches' query selects, before .limit(3).
FinderRows(f, linked, ids) ==
  { e \in Exp :
      /\ experiences[e].status \in FinderStatuses
      /\ experiences[e].is_published = TRUE
      /\ (f.county # "" => experiences[e].county = f.county)
      /\ BudgetRowPasses("finder", f.budget, experiences[e].min_price)
      /\ (linked => e \in ids) }

\* .limit(3)
FinderLimit == 3

\* The query has no order: any FinderLimit of the rows may come back.
Limited(rows) ==
  { s \in SUBSET rows :
      Cardinality(s) = IF Cardinality(rows) < FinderLimit
                       THEN Cardinality(rows) ELSE FinderLimit }

\* The rows loadExperiences' query selects.
ExperiencesRows(f, linked, ids) ==
  { e \in Exp :
      /\ experiences[e].status \in ExperiencesStatuses
      /\ experiences[e].is_published = TRUE
      /\ (f.searchText # "" =>
            \/ ILike(experiences[e].title, f.searchText)
            \/ ILike(experiences[e].event_description, f.searchText))
      /\ (f.county # "" => experiences[e].county = f.county)
      /\ (f.budget # "" =>
            BudgetRowPasses("experiences", f.budget, experiences[e].min_price))
      /\ (linked => e \in ids) }

\* The rows loadAndRenderExperience's query selects; .single() wants one.
DetailRows(id) ==
  { e \in Exp :
      /\ e = id
      /\ experiences[e].status \in DetailStatuses
      /\ experiences[e].is_published = TRUE }

\* finder.js buildFiltersFromState: label -> key -> category id.
BuildFiltersFromState(st) ==
  LET typeObj == {t \in TYPES : t.label = st.type}
      typeKey == IF typeObj = {} THEN "" ELSE (CHOOSE t \in typeObj : TRUE).key
      categoryId == IF typeKey # "" THEN TYPE_TO_CATEGORY_ID[typeKey] ELSE ""
  IN [searchText |-> "", categoryId |-> categoryId,
      county |-> st.county, budget |-> st.budget]

\* No handler of the page is awaiting a reply.
Idle == req.pc \in {"idle", "done"}

Loading == [kind |-> "loading", ids |-> {}]
ErrorShown == [kind |-> "error", ids |-> {}]
\* A list as its renderer leaves the container.
Rendered(ids) == IF ids = {} THEN [kind |-> "none", ids |-> {}]
                             ELSE [kind |-> "cards", ids |-> ids]

\* The first await of fetchMatches / loadExperiences for filters f: the link
\* table when a category is selected, the experiences table otherwise.
FetchStart(pg, f) ==
  IF f.categoryId # ""
  THEN [Req0 EXCEPT !.pc = pg \o "_link", !.filters = f]
  ELSE [Req0 EXCEPT !.pc = pg \o "_main", !.filters = f, !.mainQueries = 1]

\* What has been reset by leaving a page.
LeavePage ==
  /\ state' = FinderState0
  /\ controls' = Controls0
  /\ favoriteExperienceIds' = {}
  /\ favoritesList' = Results0
  /\ togHist' = <<>>
  /\ favShown' = "markup"
  /\ isFavorited' = FALSE

StoreUnchanged == UNCHANGED <<identity, experiences, links, favorite>>

\* -------------------------------------------------------------------------
\* B. finder.js
\* -------------------------------------------------------------------------

\* refreshMatches up to its await, the finder's state having become st.
RefreshMatches(st) ==
  /\ state' = st
  /\ results' = Loading
  /\ req' = FetchStart("finder", BuildFiltersFromState(st))
  /\ UNCHANGED <<page, controls, favoriteExperienceIds, favoritesList,
                 togHist, favShown, isFavorited, notB>>
  /\ StoreUnchanged

\* DOMContentLoaded: chips, county options, bindings, the first refresh.
OpenFinder ==
  /\ page' = "finder"
  /\ LeavePage
  /\ results' = Loading
  /\ req' = FetchStart("finder", BuildFiltersFromState(FinderState0))
  /\ UNCHANGED notB
  /\ StoreUnchanged

\* A type chip: picking the active chip unselects it.
PickType(label) ==
  /\ page = "finder" /\ Idle
  /\ RefreshMatches([state EXCEPT !.type = IF @ = label THEN "" ELSE label])

\* A recipient or occasion chip: stored for the UX only, then a refresh.
PickUxChip ==
  /\ page = "finder" /\ Idle
  /\ RefreshMatches(state)

SelectCounty(c) ==
  /\ page = "finder" /\ Idle
  /\ RefreshMatches([state EXCEPT !.county = c])

SelectBudget(b) ==
  /\ page = "finder" /\ Idle
  /\ RefreshMatches([state EXCEPT !.budget = b])

\* btnReset: resetFinder, then refreshMatches.
ResetFinder ==
  /\ page = "finder" /\ Idle
  /\ RefreshMatches(FinderState0)

\* The link table's reply inside fetchMatches.
FinderLinkReply(o) ==
  /\ page = "finder" /\ req.pc = "finder_link"
  /\ IF o = "ok"
     THEN LET ids == LinkedIds(req.filters.categoryId) IN
          IF LinkShortCircuit(ids)
          THEN /\ req' = [req EXCEPT !.pc = "done", !.linked = TRUE, !.ids = ids]
               /\ results' = Rendered({})
          ELSE /\ req' = [req EXCEPT !.pc = "finder_main", !.linked = TRUE,
                                     !.ids = ids, !.mainQueries = @ + 1]
               /\ results' = results
     ELSE /\ req' = [req EXCEPT !.pc = "done"]
          /\ results' = ErrorShown
  /\ UNCHANGED <<page, state, controls, favoriteExperienceIds, favoritesList,
                 togHist, favShown, isFavorited, notB>>
  /\ StoreUnchanged

\* The experiences table's reply inside fetchMatches, then the render.
FinderMainReply(o) ==
  /\ page = "finder" /\ req.pc = "finder_main"
  /\ IF o = "ok"
     THEN \E shown \in Limited(FinderRows(req.filters, req.linked, req.ids)) :
            results' = Rendered(shown)
     ELSE results' = ErrorShown
  /\ req' = [req EXCEPT !.pc = "done"]
  /\ UNCHANGED <<page, state, controls, favoriteExperienceIds, favoritesList,
                 togHist, favShown, isFavorited, notB>>
  /\ StoreUnchanged

\* -------------------------------------------------------------------------
\* B. experiences.js
\* -------------------------------------------------------------------------

\* Rows of table categories, the options of the category select.
CategoryRows == CategoryIds

ControlValues ==
  [ searchText : SearchTexts, categoryId : CategoryRows \cup {""},
    county : Counties \cup {""}, budget : Buckets \cup {""} ]

\* The query strings the page is opened with: none, the landing page's search,
\* and three that the finder's btnSeeMatches builds.
Urls ==
  { NoFilters,
    [NoFilters EXCEPT !.searchText = "kayak"],
    [NoFilters EXCEPT !.categoryId = TYPE_TO_CATEGORY_ID.wellness],
    [NoFilters EXCEPT !.categoryId = TYPE_TO_CATEGORY_ID.outdoors,
                      !.county = "Dublin", !.budget = "50_100"],
    [NoFilters EXCEPT !.county = "Cork", !.budget = "200_plus"] }

\* DOMContentLoaded on a URL with parameters u, once the navigation gate
\* (section E) has returned: loadFilterOptions fills the
\* category and county selects (each load may fail and leave its select with
\* the empty option only), applyFiltersFromURL sets the inputs, then
\* loadExperiences runs to its first await.
OpenExperiences(u, catOptions, countyOptions) ==
  /\ LET c == [searchText |-> u.searchText,
               categoryId |-> IF catOptions /\ u.categoryId \in CategoryRows
                              THEN u.categoryId ELSE "",
               county |-> IF countyOptions /\ u.county \in Counties
                          THEN u.county ELSE "",
               budget |-> u.budget] IN
       /\ page' = "experiences"
       /\ state' = FinderState0
       /\ favoriteExperienceIds' = {}
       /\ favoritesList' = Results0
       /\ togHist' = <<>>
       /\ favShown' = "markup"
       /\ isFavorited' = FALSE
       /\ controls' = c
       /\ results' = Loading
       /\ req' = FetchStart("experiences", c)
  /\ UNCHANGED notB
  /\ StoreUnchanged

\* btnSeeMatches of the finder: goToExperiencesWithFinderFilters builds the
\* URL from the finder's state, and experiences.js loads on it.
SeeMatches(catOptions, countyOptions) ==
  /\ page = "finder" /\ Idle
  /\ OpenExperiences(BuildFiltersFromState(state), catOptions, countyOptions)

\* loadExperiences up to its first await: getFilters reads the inputs.
LoadExperiences(c) ==
  /\ controls' = c
  /\ results' = Loading
  /\ req' = FetchStart("experiences", c)
  /\ UNCHANGED <<page, state, favoriteExperienceIds, favoritesList,
                 togHist, favShown, isFavorited, notB>>
  /\ StoreUnchanged

\* btnApplyFilters, btnHeroSearch, Enter in the search input, the visitor
\* having changed at most one input, to the values c.
ApplyFilters(c) ==
  /\ page = "experiences" /\ Idle
  /\ Cardinality({k \in DOMAIN c : c[k] # controls[k]}) <= 1
  /\ LoadExperiences(c)

\* btnClearFilters.
ClearFilters ==
  /\ page = "experiences" /\ Idle
  /\ LoadExperiences(Controls0)

\* The link table's reply inside loadExperiences.
ExperiencesLinkReply(o) ==
  /\ page = "experiences" /\ req.pc = "experiences_link"
  /\ IF o = "ok"
     THEN LET ids == LinkedIds(req.filters.categoryId) IN
          IF LinkShortCircuit(ids)
          THEN /\ req' = [req EXCEPT !.pc = "done", !.linked = TRUE, !.ids = ids]
               /\ results' = Rendered({})
          ELSE /\ req' = [req EXCEPT !.pc = "experiences_main", !.linked = TRUE,
                                     !.ids = ids, !.mainQueries = @ + 1]
               /\ results' = results
     ELSE /\ req' = [req EXCEPT !.pc = "done"]
          /\ results' = ErrorShown
  /\ UNCHANGED <<page, state, controls, favoriteExperienceIds, favoritesList,
                 togHist, favShown, isFavorited, notB>>
  /\ StoreUnchanged

\* The experiences table's reply inside loadExperiences, then
\* renderExperiences.
ExperiencesMainReply(o) ==
  /\ page = "experiences" /\ req.pc = "experiences_main"
  /\ results' = IF o = "ok"
                THEN Rendered(ExperiencesRows(req.filters, req.linked, req.ids))
                ELSE ErrorShown
  /\ req' = [req EXCEPT !.pc = "done"]
  /\ UNCHANGED <<page, state, controls, favoriteExperienceIds, favoritesList,
                 togHist, favShown, isFavorited, notB>>
  /\ StoreUnchanged

\* -------------------------------------------------------------------------
\* B. detailed_experience.js (loading and the Save button)
\* -------------------------------------------------------------------------

\* detailed_experience.js:10 `let authUser = null`; no statement assigns it.
authUser == ""

\* DOMContentLoaded on ?id=id: loadAndRenderExperience up to its await.  The
\* id is that of a card of the list being left, or any id typed as a URL.
OpenDetail(id) ==
  /\ page' = "detail"
  /\ LeavePage
  /\ results' = Results0
  /\ req' = [Req0 EXCEPT !.pc = "detail_exp", !.exp = id, !.mainQueries = 1]
  /\ UNCHANGED notB
  /\ StoreUnchanged

\* A card of the finder or of the experiences page is clicked.
ViewCard(id) ==
  /\ page \in {"finder", "experiences"}
  /\ results.kind = "cards" /\ id \in results.ids
  /\ OpenDetail(id)

\* The experiences table's reply inside loadAndRenderExperience: renderDetail
\* when .single() found its row, showError otherwise.
DetailReply(o) ==
  /\ page = "detail" /\ req.pc = "detail_exp"
  /\ results' = IF o = "ok" /\ DetailRows(req.exp) # {}
                THEN [kind |-> "cards", ids |-> DetailRows(req.exp)]
                ELSE ErrorShown
  /\ req' = [req EXCEPT !.pc = "done"]
  /\ UNCHANGED <<page, state, controls, favoriteExperienceIds, favoritesList,
                 togHist, favShown, isFavorited, notB>>
  /\ StoreUnchanged

\* -------------------------------------------------------------------------
\* B. dashboards/user.js and the Save button of detailed_experience.js
\* -------------------------------------------------------------------------

\* Completed toggles kept for inspection.
HistLen == 2

\* The record of a toggle that has run to its end: the rows of the pair and
\* the page's own flag before and after, and whether its store call succeeded.
Remember(h, r, rowsAfter, hasAfter) ==
  LET t == [exp |-> r.exp, rowsBefore |-> r.before, hadBefore |-> r.hadBefore,
            rowsAfter |-> rowsAfter, hasAfter |-> hasAfter, ok |-> r.mutOk]
      all == Append(h, t)
  IN IF Len(all) > HistLen THEN Tail(all) ELSE all

\* user.js toggleFavorite, detailed_experience.js toggleFavorite: the branch.
ToggleOp(isFav) == IF isFav THEN "delete" ELSE "insert"

\* The table after the store has run the toggle's call for experience e.
FavoriteAfter(op, e) ==
  IF op = "delete" THEN [favorite EXCEPT ![e] = 0]
                   ELSE [favorite EXCEPT ![e] = @ + 1]

\* A toggle that edits the local set before looking at the store's answer.
LocalAfterAlways(ids, op, e, o) ==
  IF op = "delete" THEN ids \ {e} ELSE ids \cup {e}

\* user.js:197 / 210: favoriteExperienceIds.delete / .add, reached only when
\* the store call returned no error.
LocalAfter(ids, op, e, o) ==
  IF o # "ok" THEN ids
  ELSE IF op = "delete" THEN ids \ {e} ELSE ids \cup {e}

\* A toggle that returns after its store call, leaving the list as it was.
AfterMutationNoReload == "done"

\* user.js:215 `await loadFavorites()`: where toggleFavorite goes after a
\* store call that succeeded.
AfterMutation == "fav_rows"

\* DOMContentLoaded of user.js up to auth.getUser().
OpenUserDashboard ==
  /\ page' = "user"
  /\ LeavePage
  /\ results' = Results0
  /\ req' = [Req0 EXCEPT !.pc = "user_auth"]
  /\ UNCHANGED notB
  /\ StoreUnchanged

\* auth.getUser() replies: no user sends the browser to the login page,
\* otherwise loadUserInfo starts.
UserAuthReply(o) ==
  /\ page = "user" /\ req.pc = "user_auth"
  /\ IF o = "throw"
     THEN /\ req' = [req EXCEPT !.pc = "done"]
          /\ page' = page
     ELSE IF o = "error" \/ identity = ""
     THEN /\ req' = Req0
          /\ page' = "login"
     ELSE /\ req' = [req EXCEPT !.pc = "user_info"]
          /\ page' = page
  /\ UNCHANGED <<state, controls, results, favoriteExperienceIds,
                 favoritesList, togHist, favShown, isFavorited, notB>>
  /\ StoreUnchanged

\* loadUserInfo's query replies (an error result returns early, a rejection
\* ends the handler); then loadFavorites runs to its first await.
UserInfoReply(o) ==
  /\ page = "user" /\ req.pc = "user_info"
  /\ req' = IF o = "throw" THEN [req EXCEPT !.pc = "done"]
            ELSE [req EXCEPT !.pc = "fav_rows", !.fresh = TRUE]
  /\ UNCHANGED <<page, state, controls, results, favoriteExperienceIds,
                 favoritesList, togHist, favShown, isFavorited, notB>>
  /\ StoreUnchanged

\* loadFavorites: the favorite table replies.
FavRowsReply(o) ==
  /\ page = "user" /\ req.pc = "fav_rows"
  /\ LET ids == {e \in Exp : favorite[e] > 0}
         ends == o # "ok" \/ ids = {} IN
       /\ favoriteExperienceIds' = IF o = "ok" THEN ids ELSE favoriteExperienceIds
       /\ favoritesList' = IF o # "ok" THEN ErrorShown
                           ELSE IF ids = {} THEN Rendered({}) ELSE favoritesList
       /\ favShown' = IF o # "ok" THEN "error"
                      ELSE IF ids = {} THEN (IF req.fresh THEN "read" ELSE "stale")
                      ELSE favShown
       /\ req' = IF ends THEN [req EXCEPT !.pc = "done", !.ids = {}]
                 ELSE [req EXCEPT !.pc = "fav_exps", !.ids = ids]
       /\ togHist' = IF ends /\ req.inToggle
                     THEN Remember(togHist, req, favorite[req.exp],
                                   req.exp \in favoriteExperienceIds')
                     ELSE togHist
  /\ UNCHANGED <<page, state, controls, results, isFavorited, notB>>
  /\ StoreUnchanged

\* loadFavorites: the experiences table replies, then renderFavoritesList.
FavExpsReply(o) ==
  /\ page = "user" /\ req.pc = "fav_exps"
  /\ favoritesList' =
       IF o = "ok"
       THEN Rendered({e \in req.ids : FavoriteSafe(experiences[e])})
       ELSE ErrorShown
  /\ favShown' = IF o # "ok" THEN "error"
                 ELSE IF req.fresh THEN "read" ELSE "stale"
  /\ req' = [req EXCEPT !.pc = "done"]
  /\ togHist' = IF req.inToggle
                THEN Remember(togHist, req, favorite[req.exp],
                              req.exp \in favoriteExperienceIds)
                ELSE togHist
  /\ UNCHANGED <<page, state, controls, results, favoriteExperienceIds,
                 isFavorited, notB>>
  /\ StoreUnchanged

\* The heart button of a card: toggleFavorite up to its store call.
ToggleClick(e) ==
  /\ page = "user" /\ Idle
  /\ favoritesList.kind = "cards" /\ e \in favoritesList.ids
  /\ req' = [Req0 EXCEPT !.pc = "toggle_mut", !.exp = e, !.inToggle = TRUE,
                         !.op = ToggleOp(e \in favoriteExperienceIds),
                         !.before = favorite[e],
                         !.hadBefore = e \in favoriteExperienceIds]
  /\ UNCHANGED <<page, state, controls, results, favoriteExperienceIds,
                 favoritesList, togHist, favShown, isFavorited, notB>>
  /\ StoreUnchanged

\* btnSave of the detail page: without authUser the browser goes to the login
\* page; with it toggleFavorite runs to its store call.
SaveClick ==
  /\ page = "detail" /\ Idle
  /\ IF authUser = ""
     THEN /\ page' = "login"
          /\ req' = Req0
          /\ results' = Results0
     ELSE /\ page' = page
          /\ results' = results
          /\ req' = [Req0 EXCEPT !.pc = "toggle_mut", !.exp = req.exp,
                                 !.inToggle = TRUE, !.op = ToggleOp(isFavorited),
                                 !.before = favorite[req.exp],
                                 !.hadBefore = isFavorited]
  /\ UNCHANGED <<state, controls, favoriteExperienceIds, favoritesList,
                 togHist, favShown, isFavorited, notB>>
  /\ StoreUnchanged

\* The store call of a toggle replies.  On the dashboard a success edits the
\* local set and goes on to loadFavorites; on the detail page it flips
\* isFavorited and updateSaveButtonUI shows the flag.  An error result or a
\* rejection goes to the catch: a toast or alert, nothing else.
ToggleReply(o) ==
  /\ req.pc = "toggle_mut"
  /\ LET e == req.exp
         r == [req EXCEPT !.mutOk = (o = "ok")] IN
     /\ favorite' = IF o = "ok" THEN FavoriteAfter(req.op, e) ELSE favorite
     /\ IF page = "user"
        THEN /\ favoriteExperienceIds' = LocalAfter(favoriteExperienceIds, req.op, e, o)
             /\ isFavorited' = isFavorited
             /\ favShown' = IF o = "ok" THEN "stale" ELSE favShown
             /\ IF o = "ok" /\ AfterMutation = "fav_rows"
                THEN /\ req' = [r EXCEPT !.pc = "fav_rows", !.fresh = TRUE]
                     /\ togHist' = togHist
                ELSE /\ req' = [r EXCEPT !.pc = "done"]
                     /\ togHist' = Remember(togHist, r, favorite'[e],
                                            e \in favoriteExperienceIds')
        ELSE /\ favoriteExperienceIds' = favoriteExperienceIds
             /\ isFavorited' = IF o = "ok" THEN ~isFavorited ELSE isFavorited
             /\ favShown' = "local"
             /\ req' = [r EXCEPT !.pc = "done"]
             /\ togHist' = Remember(togHist, r, favorite'[e], isFavorited')
  /\ UNCHANGED <<identity, experiences, links, page, state, controls, results,
                 favoritesList, notB>>

\* -------------------------------------------------------------------------
\* C. Metrics: visitor session and event_metric (detailed_experience.js,
\*    landing.js)
\* -------------------------------------------------------------------------

\* One tick of the clock, in milliseconds.
TickMs == 10 * 60 * 1000
\* Date.now() at the first page load, in ticks: later than one window after
\* the epoch.
ClockStart == 3
\* The clock stops here.
MaxClock == 7

\* The values crypto.randomUUID() is seen to return.
Uuids == {1, 2}
\* localStorage.getItem(key) of a key never set, as the code reads it.
NoSession == 0

\* Experiences whose detail page is visited.
MExp == {"x1"}
EventKinds == {"view", "booking_click"}

\* A key that holds both kinds' timestamps of an experience.
SharedDedupeKey(kind, e) == <<"seen_", e>>

\* logViewOnce: `viewed_${experienceId}`; logBookingClickOnce:
\* `booking_${experienceId}`.
DedupeKey(kind, e) ==
  IF kind = "view" THEN <<"viewed_", e>> ELSE <<"booking_", e>>

StorageKeys == {"viewed_", "booking_", "seen_"} \X MExp

\* minutes * 60 * 1000
CoolDownMs(minutes) == minutes * 60 * 1000

\* `now - last < 30 * 60 * 1000`
WithinWindow(now, last) == now - last < CoolDownMs(30)

\* A session lookup that never finds the stored id.
AlwaysNewSession(stored) == TRUE

\* getOrCreateVisitorSessionId: `if (!sessionId)`.
NeedsNewSession(stored) == stored = NoSession

LocalStorage0 == [visitor_session_id |-> NoSession,
                  stamps |-> [k \in StorageKeys |-> 0]]

MPage0 == [name |-> "none", exp |-> "", rendered |-> FALSE, url |-> FALSE]
MReq0 == [pc |-> "idle", handler |-> "", kind |-> "", exp |-> "",
          sessionId |-> NoSession, at |-> 0]
Click0 == [state |-> "none", url |-> FALSE, opened |-> FALSE]

\* Calls kept per kind and experience.
LogLen == 2

OffC ==
  /\ clock = ClockStart
  /\ localStorage = LocalStorage0
  /\ event_metric = EmptyBag
  /\ mpage = MPage0
  /\ mreq = MReq0
  /\ onceLog = [k \in EventKinds \X MExp |-> <<>>]
  /\ click = Click0

MIdle == mreq.pc \in {"idle", "done"}

\* A log...Once call has returned or died: whether its window check passed,
\* the rows it inserted, whether its recording succeeded.
LogCall(kind, e, at, passed, rows, ok) ==
  LET c == [at |-> at, passed |-> passed, rows |-> rows, ok |-> ok]
      all == Append(onceLog[<<kind, e>>], c)
  IN [onceLog EXCEPT ![<<kind, e>>] =
        IF Len(all) > LogLen THEN Tail(all) ELSE all]

\* The click handler after logBookingClickOnce: window.open when the await
\* returned, nothing when it threw.
ClickEnds(handler, returned) ==
  IF handler = "click"
  THEN [state |-> "ended", url |-> TRUE, opened |-> returned]
  ELSE click

\* Time passes.
Tick ==
  /\ clock < MaxClock
  /\ clock' = clock + 1
  /\ UNCHANGED <<localStorage, event_metric, mpage, mreq, onceLog, click>>
  /\ UNCHANGED notC

\* landing.js DOMContentLoaded: getOrCreateVisitorSessionId up to its insert.
OpenLanding ==
  /\ MIdle
  /\ mpage' = [MPage0 EXCEPT !.name = "landing"]
  /\ click' = Click0
  /\ IF NeedsNewSession(localStorage.visitor_session_id)
     THEN \E u \in Uuids :
            /\ localStorage' = [localStorage EXCEPT !.visitor_session_id = u]
            /\ mreq' = [MReq0 EXCEPT !.pc = "landing_vs", !.handler = "load",
                                     !.sessionId = u]
     ELSE /\ localStorage' = localStorage
          /\ mreq' = [MReq0 EXCEPT !.pc = "done", !.handler = "load",
                        !.sessionId = localStorage.visitor_session_id]
  /\ UNCHANGED <<clock, event_metric, onceLog>>
  /\ UNCHANGED notC

\* landing.js: the visitor_session insert replies; an error is warned about,
\* a rejection ends the page's handler.
LandingSessionReply(o) ==
  /\ mreq.pc = "landing_vs"
  /\ mreq' = [mreq EXCEPT !.pc = "done"]
  /\ UNCHANGED <<clock, localStorage, event_metric, mpage, onceLog, click>>
  /\ UNCHANGED notC

\* logViewOnce / logBookingClickOnce from their first line to the first await
\* of logEvent, called by `handler` for experience e.
LogOnce(kind, e, handler) ==
  LET now == clock * TickMs
      key == DedupeKey(kind, e)
      last == localStorage.stamps[key]
      stored == localStorage.visitor_session_id
  IN IF WithinWindow(now, last)
     THEN /\ localStorage' = localStorage
          /\ onceLog' = LogCall(kind, e, clock, FALSE, 0, FALSE)
          /\ mreq' = [MReq0 EXCEPT !.pc = "done", !.handler = handler,
                                   !.kind = kind, !.exp = e, !.at = clock]
          /\ click' = ClickEnds(handler, TRUE)
     ELSE /\ onceLog' = onceLog
          /\ click' = IF handler = "click"
                      THEN [state |-> "running", url |-> TRUE, opened |-> FALSE]
                      ELSE Click0
          /\ IF NeedsNewSession(stored)
             THEN \E u \in Uuids :
                    /\ localStorage' = [localStorage EXCEPT
                                          !.stamps[key] = now,
                                          !.visitor_session_id = u]
                    /\ mreq' = [pc |-> "detail_vs", handler |-> handler,
                                kind |-> kind, exp |-> e, sessionId |-> u,
                                at |-> clock]
             ELSE /\ localStorage' = [localStorage EXCEPT !.stamps[key] = now]
                  /\ mreq' = [pc |-> "get_user", handler |-> handler,
                              kind |-> kind, exp |-> e, sessionId |-> stored,
                              at |-> clock]

\* detailed_experience.js DOMContentLoaded on ?id=e, after
\* loadAndRenderExperience has rendered the experience (with or without a
\* booking URL) or shown its error: logViewOnce.
OpenMetricsDetail(e, rendered, url) ==
  /\ MIdle
  /\ rendered \/ ~url
  /\ mpage' = [name |-> "detail", exp |-> e, rendered |-> rendered, url |-> url]
  /\ LogOnce("view", e, "load")
  /\ UNCHANGED <<clock, event_metric>>
  /\ UNCHANGED notC

\* The click handler bound by wireBookingClickTracking.
BookingClick ==
  /\ MIdle
  /\ mpage.name = "detail" /\ mpage.rendered
  /\ IF ~mpage.url
     THEN /\ click' = [state |-> "ended", url |-> FALSE, opened |-> FALSE]
          /\ mreq' = [MReq0 EXCEPT !.pc = "done", !.handler = "click"]
          /\ UNCHANGED <<localStorage, onceLog>>
     ELSE LogOnce("booking_click", mpage.exp, "click")
  /\ UNCHANGED <<clock, event_metric, mpage>>
  /\ UNCHANGED notC

\* detailed_experience.js: the visitor_session insert replies inside its
\* try/catch; logEvent goes on to auth.getUser() whatever came back.
DetailSessionReply(o) ==
  /\ mreq.pc = "detail_vs"
  /\ mreq' = [mreq EXCEPT !.pc = "get_user"]
  /\ UNCHANGED <<clock, localStorage, event_metric, mpage, onceLog, click>>
  /\ UNCHANGED notC

\* logEvent: auth.getUser() replies.  A rejection leaves logEvent, the
\* log...Once call and the handler that awaited it.
GetUserReply(o) ==
  /\ mreq.pc = "get_user"
  /\ IF o = "throw"
     THEN /\ mreq' = [mreq EXCEPT !.pc = "done"]
          /\ onceLog' = LogCall(mreq.kind, mreq.exp, mreq.at, TRUE, 0, FALSE)
          /\ click' = ClickEnds(mreq.handler, FALSE)
     ELSE /\ mreq' = [mreq EXCEPT !.pc = "em_insert"]
          /\ UNCHANGED <<onceLog, click>>
  /\ UNCHANGED <<clock, localStorage, event_metric, mpage>>
  /\ UNCHANGED notC

\* logEvent: the event_metric insert replies; an error is warned about.
EventInsertReply(o) ==
  /\ mreq.pc = "em_insert"
  /\ event_metric' =
       IF o = "ok"
       THEN event_metric (+) SetToBag({[experience_id |-> mreq.exp,
                                         event_type |-> mreq.kind,
                                         session_id |-> mreq.sessionId]})
       ELSE event_metric
  /\ onceLog' = LogCall(mreq.kind, mreq.exp, mreq.at, TRUE,
                        IF o = "ok" THEN 1 ELSE 0, o = "ok")
  /\ click' = ClickEnds(mreq.handler, o # "throw")
  /\ mreq' = [mreq EXCEPT !.pc = "done"]
  /\ UNCHANGED <<clock, localStorage, mpage>>
  /\ UNCHANGED notC

\* -------------------------------------------------------------------------
\* E. The navigation gate (finder.js, experiences.js, waitlist.js, landing.js,
\*    detailed_experience.js)
\* -------------------------------------------------------------------------

NavPages == {"finder", "experiences", "waitlist", "landing", "detail"}
Variants == {"guest", "user", "business"}
Roles == {"user", "business", "admin", ""}

\* The three elements as the document's markup leaves them.
NavMarkup == [v \in Variants |-> "markup"]

\* One variant set to 'flex' and the other two to 'none'.
Only(v) == [w \in Variants |-> IF w = v THEN "flex" ELSE "none"]

\* `const role = userRow?.role || 'user'` and the branch on 'business'.
VariantOfRole(role) == IF role = "business" THEN "business" ELSE "user"

\* lookedUp is the role a successful lookup returned, roleOutcome how the
\* lookup ended ("" while none has), session how the landing page's
\* visitor_session insert ended.
Gate0 == [pc |-> "idle", lookedUp |-> "", roleOutcome |-> "", session |-> ""]

OffE ==
  /\ roleRow = ""
  /\ navPage = "none"
  /\ nav = NavMarkup
  /\ gate = Gate0

\* The pages whose gate has a try/catch that restores the guest variant.
GuestOnThrow == {"finder", "waitlist"}

\* DOMContentLoaded of page pg up to the first await of (or before) its gate.
OpenNavPage(pg) ==
  /\ navPage' = pg
  /\ IF pg \in {"finder", "waitlist"}
     THEN /\ nav' = Only("guest")
          /\ gate' = [Gate0 EXCEPT !.pc = "get_user"]
     ELSE IF pg = "experiences"
     THEN /\ nav' = NavMarkup
          /\ gate' = [Gate0 EXCEPT !.pc = "get_user"]
     ELSE IF pg = "landing"
     THEN /\ nav' = NavMarkup
          /\ gate' = [Gate0 EXCEPT !.pc = "landing_pre"]
     ELSE /\ nav' = Only("guest")
          /\ gate' = IF authUser = "" THEN [Gate0 EXCEPT !.pc = "done"]
                     ELSE [Gate0 EXCEPT !.pc = "role"]
  /\ UNCHANGED <<roleRow, notE>>

\* landing.js: getOrCreateVisitorSessionId's insert, awaited outside any
\* try/catch before checkAuthStatus; the three loads after it catch their own
\* failures.
LandingBeforeGate(o) ==
  /\ gate.pc = "landing_pre"
  /\ gate' = [gate EXCEPT !.pc = IF o = "throw" THEN "dead" ELSE "get_user",
                          !.session = o]
  /\ UNCHANGED <<roleRow, navPage, nav, notE>>

\* auth.getUser() replies: an error result carries no user.
NavGetUserReply(o) ==
  /\ gate.pc = "get_user"
  /\ LET user == IF o = "ok" THEN identity ELSE "" IN
     IF o = "throw"
     THEN IF navPage \in GuestOnThrow
          THEN nav' = Only("guest") /\ gate' = [gate EXCEPT !.pc = "done"]
          ELSE IF navPage = "landing"
          THEN nav' = nav /\ gate' = [gate EXCEPT !.pc = "done"]
          ELSE nav' = nav /\ gate' = [gate EXCEPT !.pc = "dead"]
     ELSE IF user = ""
     THEN nav' = Only("guest") /\ gate' = [gate EXCEPT !.pc = "done"]
     ELSE /\ nav' = IF navPage = "experiences" THEN Only("guest") ELSE nav
          /\ gate' = [gate EXCEPT !.pc = "role"]
  /\ UNCHANGED <<roleRow, navPage, notE>>

\* The users.role lookup replies.
NavRoleReply(o) ==
  /\ gate.pc = "role"
  /\ LET role == IF o = "ok" THEN roleRow ELSE "" IN
     IF o = "throw"
     THEN /\ nav' = IF navPage \in GuestOnThrow THEN Only("guest")
                    ELSE IF navPage = "detail" THEN Only("user")
                    ELSE nav
          /\ gate' = [gate EXCEPT !.roleOutcome = o,
                        !.pc = IF navPage = "experiences" THEN "dead" ELSE "done"]
     ELSE /\ nav' = Only(VariantOfRole(role))
          /\ gate' = [gate EXCEPT !.pc = "done", !.lookedUp = role,
                                !.roleOutcome = o]
  /\ UNCHANGED <<roleRow, navPage, notE>>

\* -------------------------------------------------------------------------
\* F. Rendering: text, images and prices put on a page
\* -------------------------------------------------------------------------

\* A string is a sequence of one-character strings.
Amp  == <<"&", "a", "m", "p", ";">>
Lt   == <<"&", "l", "t", ";">>
Gt   == <<"&", "g", "t", ";">>
Quot == <<"&", "q", "u", "o", "t", ";">>
Apos == <<"&", "#", "0", "3", "9", ";">>

\* String.prototype.replaceAll(c, by) for a one-character c.
RECURSIVE ReplaceAll(_, _, _)
ReplaceAll(s, c, by) ==
  IF s = <<>> THEN <<>>
  ELSE (IF Head(s) = c THEN by ELSE <<Head(s)>>) \o ReplaceAll(Tail(s), c, by)

\* escapeHtml of finder.js, experiences.js, detailed_experience.js, admin.js
\* and businessmetrics.js: five replaceAll passes, '&' first.
EscapeHtml(s) ==
  ReplaceAll(ReplaceAll(ReplaceAll(ReplaceAll(ReplaceAll(s,
    "&", Amp), "<", Lt), ">", Gt), "\"", Quot), "'", Apos)

\* Does s start with the characters of prefix?
StartsWith(s, prefix) ==
  Len(s) >= Len(prefix) /\ SubSeq(s, 1, Len(prefix)) = prefix

Drop(s, n) == SubSeq(s, n + 1, Len(s))

\* What the HTML parser makes of markup assigned to innerHTML, character by
\* character: a character reference becomes its character, '<' before a
\* letter or '/' opens a tag (shown here as the one element "TAG", the rest
\* of the markup no longer being text), anything else is text.
RECURSIVE ParseHtml(_)
ParseHtml(h) ==
  IF h = <<>> THEN <<>>
  ELSE IF StartsWith(h, Amp)  THEN <<"&">>  \o ParseHtml(Drop(h, Len(Amp)))
  ELSE IF StartsWith(h, Lt)   THEN <<"<">>  \o ParseHtml(Drop(h, Len(Lt)))
  ELSE IF StartsWith(h, Gt)   THEN <<">">>  \o ParseHtml(Drop(h, Len(Gt)))
  ELSE IF StartsWith(h, Quot) THEN <<"\"">> \o ParseHtml(Drop(h, Len(Quot)))
  ELSE IF StartsWith(h, Apos) THEN <<"'">>  \o ParseHtml(Drop(h, Len(Apos)))
  ELSE IF Head(h) = "<" /\ Len(h) > 1 /\ h[2] \in {"a", "l", "t", "/"}
       THEN <<"TAG">>
  ELSE <<Head(h)>> \o ParseHtml(Tail(h))

\* The places where stored text goes into an innerHTML template, and whether
\* the code passes it through escapeHtml there.
TextSites ==
  { [page |-> "finder",      field |-> "title",           escapes |-> TRUE],
    [page |-> "finder",      field |-> "business_name",   escapes |-> TRUE],
    [page |-> "experiences", field |-> "title",           escapes |-> TRUE],
    [page |-> "experiences", field |-> "event_description", escapes |-> TRUE],
    [page |-> "detail",      field |-> "list item",       escapes |-> TRUE],
    [page |-> "admin",       field |-> "waitlist row",    escapes |-> TRUE],
    [page |-> "admin",       field |-> "full_name",       escapes |-> FALSE],
    [page |-> "business",    field |-> "title",           escapes |-> FALSE],
    [page |-> "business",    field |-> "business_name",   escapes |-> FALSE],
    [page |-> "business",    field |-> "category_name",   escapes |-> FALSE],
    [page |-> "landing",     field |-> "category_name",   escapes |-> FALSE],
    [page |-> "landing",     field |-> "county_id",       escapes |-> FALSE],
    [page |-> "user",        field |-> "full_name",       escapes |-> FALSE] }

\* The template's `${...}` for a text value at a site.
InsertedHtml(site, v) == IF site.escapes THEN EscapeHtml(v) ELSE v

\* Longest stored text tried character by character.
MaxLen == 2
TextChars == {"a", "&", "<", ">", "\"", "'", ";"}
TextsUpTo(n) == UNION {[1..k -> TextChars] : k \in 1..n}
\* Stored values: every short string, a tag, and text that reads like a
\* character reference.
Texts == TextsUpTo(MaxLen) \cup {<<"<", "a", ">">>, Lt, Amp}

\* Nothing rendered yet.
OffF == view = [kind |-> "none"]

\* A page renders the stored text v at one of its sites.
RenderText(site, v) ==
  /\ view.kind = "none"
  /\ view' = [kind |-> "text", site |-> site, value |-> v,
                  html |-> InsertedHtml(site, v),
                  shown |-> ParseHtml(InsertedHtml(site, v))]
  /\ UNCHANGED notF

\* JavaScript null in a text column, and in a numeric one.
JsNull == "<null>"
NoNumber == -1

\* Falsy values of a text column: null and the empty string.
Falsy(x) == x \in {JsNull, ""}

\* `a || b`
OrElse(a, b) == IF Falsy(a) THEN b ELSE a

\* Image rows of one experience, in the order the platform returned them.
ImageUrls == {"", JsNull, "a.png", "b.png"}
DisplayOrders == {NoNumber, 0, 1}
ImageRows == [image_url : ImageUrls, is_primary : BOOLEAN,
              display_order : DisplayOrders]
MaxImages == 2
ImageLists == UNION {[1..k -> ImageRows] : k \in 0..MaxImages}

\* No image: what `imgs[0]` or `find` gives on an empty list; its image_url
\* reads as undefined, which is falsy like null.
NoImage == [image_url |-> JsNull, is_primary |-> FALSE,
            display_order |-> NoNumber]

\* `display_order ?? 999`
OrderKey(img) == IF img.display_order = NoNumber THEN 999 ELSE img.display_order

\* Insert img into an ascending list after every row that is not larger:
\* the step of a stable sort.
RECURSIVE InsertByOrder(_, _)
InsertByOrder(sorted, img) ==
  IF sorted = <<>> THEN <<img>>
  ELSE IF OrderKey(Head(sorted)) <= OrderKey(img)
       THEN <<Head(sorted)>> \o InsertByOrder(Tail(sorted), img)
       ELSE <<img>> \o sorted

\* images.slice().sort by display_order, rows without one last; also the
\* platform's `.order('display_order')`.
RECURSIVE SortByDisplayOrder(_)
SortByDisplayOrder(imgs) ==
  IF imgs = <<>> THEN <<>>
  ELSE InsertByOrder(SortByDisplayOrder(SubSeq(imgs, 1, Len(imgs) - 1)),
                     imgs[Len(imgs)])

\* imgs.find(i => i.is_primary), NoImage when there is none.
FindPrimary(imgs) ==
  IF \E i \in 1..Len(imgs) : imgs[i].is_primary
  THEN imgs[CHOOSE i \in 1..Len(imgs) :
              /\ imgs[i].is_primary
              /\ \A j \in 1..(i - 1) : ~imgs[j].is_primary]
  ELSE NoImage

First(imgs) == IF imgs = <<>> THEN NoImage ELSE imgs[1]

ImagePages == {"finder", "experiences", "detail", "business", "admin"}

\* The placeholder each page falls back to.
Placeholder(pg) ==
  CASE pg \in {"finder", "experiences"} -> "placeholder 300x200"
    [] pg = "detail"   -> "placeholder 1200x800"
    [] pg = "business" -> "placeholder 400x250"
    [] pg = "admin"    -> "placeholder 800x500"

\* The rows as the page holds them: finder and experiences select the images
\* with no order, the others have them by display order.
ImagesOn(pg, imgs) ==
  IF pg \in {"finder", "experiences"} THEN imgs ELSE SortByDisplayOrder(imgs)

\* The URL the page's image rule yields before its placeholder is applied:
\* `primary || first` then its image_url on finder, experiences and detail;
\* the primary's image_url, else the first's, on the two dashboards.
PrimaryImageUrl(pg, imgs) ==
  LET rows    == ImagesOn(pg, imgs)
      primary == FindPrimary(rows)
  IN IF pg \in {"business", "admin"}
     THEN OrElse(primary.image_url, OrElse(First(rows).image_url, JsNull))
     ELSE IF primary # NoImage THEN primary.image_url
          ELSE First(rows).image_url

NoFallback(url, fallback) == url

\* `url || placeholder`
WithFallback(url, fallback) == OrElse(url, fallback)

\* The URL the page renders the experience with.
ImageUrlOn(pg, imgs) ==
  WithFallback(PrimaryImageUrl(pg, imgs), Placeholder(pg))

\* A page renders an experience that has the image rows imgs.
RenderImage(pg, imgs) ==
  /\ view.kind = "none"
  /\ view' = [kind |-> "image", page |-> pg, images |-> imgs,
              url |-> ImageUrlOn(pg, imgs)]
  /\ UNCHANGED notF

\* Price columns: no value, zero, or an amount.
Prices == {NoNumber, 0, 20, 50}
PriceSurfaces == {"user", "business", "admin", "detail"}

\* Whether the surface's condition takes the value as there: `!= null` on the
\* user dashboard and the detail page, truthiness on the two dashboards.
PriceCounts(surface, p) ==
  IF surface \in {"user", "detail"} THEN p # NoNumber
  ELSE p \notin {NoNumber, 0}

\* The surface's price text: which of its three templates, and the amounts
\* in it.
PriceText(surface, min, max) ==
  IF PriceCounts(surface, min) /\ PriceCounts(surface, max)
  THEN [form |-> "range", min |-> min, max |-> max]
  ELSE IF PriceCounts(surface, min)
       THEN [form |-> "from", min |-> min, max |-> NoNumber]
       ELSE [form |-> "tbd", min |-> NoNumber, max |-> NoNumber]

\* A surface renders the price of an experience.
RenderPrice(surface, min, max) ==
  /\ view.kind = "none"
  /\ view' = [kind |-> "price", surface |-> surface, min_price |-> min,
              max_price |-> max, text |-> PriceText(surface, min, max)]
  /\ UNCHANGED notF

\* -------------------------------------------------------------------------
\* G. The business and admin dashboards (business.js, admin.js)
\* -------------------------------------------------------------------------

DashPages == {"business", "admin"}

\* pc is where the DOMContentLoaded handler awaits, redirect the page that
\* window.location.href was last set to ("" while it was not).
Dash0 == [page |-> "none", pc |-> "idle", currentBusiness |-> FALSE,
          redirect |-> ""]

\* filled: the inputs and at least one selected image are there; uploaded:
\* the images carry their storage URL; pc: where the submitExperience call in
\* flight awaits; timers: delayed resets not yet run; rows: experience rows
\* inserted since the form was last empty; blocked: a call has returned on
\* the isSubmitting guard.
Form0 == [filled |-> FALSE, uploaded |-> FALSE, isSubmitting |-> FALSE,
          pc |-> "idle", timers |-> 0, rows |-> 0, blocked |-> FALSE]

\* Most inserts of one filled form that are followed, and most delayed resets
\* pending at once.
MaxFormRows == 2
MaxTimers == 2

\* isSavingProfile; pc: where handleBusinessProfileSave awaits.
Profile0 == [isSavingProfile |-> FALSE, pc |-> "idle"]

OffG ==
  /\ dash = Dash0
  /\ createForm = Form0
  /\ shownText = {}
  /\ issued = {}
  /\ profileForm = Profile0

\* A message written by the code alone, and one built from error.message.
Static(text) == [text |-> text, diagnostic |-> FALSE]
WithErrorMessage(text) == [text |-> text, diagnostic |-> TRUE]

\* The load the handler calls first once checkAuth has returned.
FirstLoad(pg) == IF pg = "business" THEN "form_data" ELSE "stats"

\* checkAuth returns, having set window.location.href to target ("" for no
\* redirect): the handler goes on to its first load, whose request leaves
\* before any navigation takes place.
CheckAuthReturns(target, business) ==
  /\ dash' = [dash EXCEPT !.redirect = target, !.currentBusiness = business,
                          !.pc = FirstLoad(dash.page)]
  /\ issued' = issued \cup {FirstLoad(dash.page)}

\* DOMContentLoaded of a dashboard up to auth.getUser().
OpenDashboard(pg) ==
  /\ dash.page = "none"
  /\ dash' = [Dash0 EXCEPT !.page = pg, !.pc = "get_user"]
  /\ UNCHANGED <<createForm, shownText, issued, profileForm, notG>>

\* checkAuth: auth.getUser() replies.
DashGetUserReply(o) ==
  /\ dash.pc = "get_user"
  /\ IF o = "ok" /\ identity # ""
     THEN dash' = [dash EXCEPT !.pc = "role"] /\ issued' = issued
     ELSE CheckAuthReturns("login", FALSE)
  /\ UNCHANGED <<createForm, shownText, profileForm, notG>>

\* checkAuth: the users row replies. business.js throws on an error result;
\* admin.js ignores it and fails in displayUserInfo(null); both catch blocks
\* redirect to login.
DashRoleReply(o) ==
  /\ dash.pc = "role"
  /\ IF o # "ok" THEN CheckAuthReturns("login", FALSE)
     ELSE IF roleRow # dash.page THEN CheckAuthReturns(roleRow, FALSE)
     ELSE IF dash.page = "business"
     THEN dash' = [dash EXCEPT !.pc = "business"] /\ issued' = issued
     ELSE CheckAuthReturns("", FALSE)
  /\ UNCHANGED <<createForm, shownText, profileForm, notG>>

\* business.js checkAuth: the business row replies.
DashBusinessReply(o) ==
  /\ dash.pc = "business"
  /\ IF o = "ok" THEN CheckAuthReturns("", TRUE)
     ELSE CheckAuthReturns("login", FALSE)
  /\ UNCHANGED <<createForm, shownText, profileForm, notG>>

\* business.js loadFormData replies; then loadExperiences, which returns at
\* once without currentBusiness.
DashFormDataReply(o) ==
  /\ dash.pc = "form_data"
  /\ shownText' = IF o = "ok" THEN shownText
                  ELSE shownText \cup {Static("Error loading form data")}
  /\ IF dash.currentBusiness
     THEN /\ dash' = [dash EXCEPT !.pc = "experiences"]
          /\ issued' = issued \cup {"experiences"}
     ELSE /\ dash' = [dash EXCEPT !.pc = "ready"]
          /\ issued' = issued
  /\ UNCHANGED <<createForm, profileForm, notG>>

\* business.js loadExperiences replies, on first load or after a reset.
DashExperiencesReply(o) ==
  /\ dash.pc \in {"experiences", "reload"}
  /\ shownText' = IF o = "ok" THEN shownText
                  ELSE shownText \cup
                         {WithErrorMessage("Error loading experiences: ")}
  /\ dash' = [dash EXCEPT !.pc = "ready"]
  /\ UNCHANGED <<createForm, issued, profileForm, notG>>

\* admin.js loadDashboardStats replies (a failure is logged only); then
\* loadWaitlistOverview.
DashStatsReply(o) ==
  /\ dash.pc = "stats"
  /\ dash' = [dash EXCEPT !.pc = "waitlist"]
  /\ issued' = issued \cup {"waitlist"}
  /\ UNCHANGED <<createForm, shownText, profileForm, notG>>

\* admin.js loadWaitlistOverview replies.
DashWaitlistReply(o) ==
  /\ dash.pc = "waitlist"
  /\ shownText' = IF o = "ok" THEN shownText
                  ELSE shownText \cup {Static("Could not load waitlist")}
  /\ dash' = [dash EXCEPT !.pc = "ready"]
  /\ UNCHANGED <<createForm, issued, profileForm, notG>>

\* The navigation that window.location.href started replaces the page.
DashUnload ==
  /\ dash.redirect # ""
  /\ dash.pc # "gone"
  /\ dash' = [dash EXCEPT !.pc = "gone"]
  /\ UNCHANGED <<createForm, shownText, issued, profileForm, notG>>

\* The business dashboard with its handlers bound.
FormUsable == dash.page = "business" /\ dash.pc \in {"ready", "reload"}

\* The visitor fills the empty create form in and selects images.
FillForm ==
  /\ FormUsable /\ dash.currentBusiness
  /\ ~createForm.filled
  /\ createForm' = [createForm EXCEPT !.filled = TRUE, !.uploaded = FALSE,
                                      !.rows = 0]
  /\ UNCHANGED <<dash, shownText, issued, profileForm, notG>>

\* Whether the isSubmitting guard lets a call of submitExperience through.
GuardOpen(f) == ~f.isSubmitting

\* Submit (handleSubmitForApproval) or Save Draft (saveDraft): submitExperience
\* up to its first await.
SubmitClick(status) ==
  /\ FormUsable
  /\ createForm.rows < MaxFormRows
  /\ createForm.timers < MaxTimers
  /\ IF ~dash.currentBusiness
     THEN /\ shownText' = shownText \cup
                            {Static("Business information not found")}
          /\ createForm' = createForm
     ELSE IF ~GuardOpen(createForm)
     THEN /\ createForm' = [createForm EXCEPT !.blocked = TRUE]
          /\ shownText' = shownText
     ELSE IF ~createForm.filled
     THEN /\ shownText' = shownText \cup
                            {Static("Please fill in all required fields")}
          /\ createForm' = createForm
     ELSE /\ shownText' = shownText \cup {Static("Processing...")}
          /\ createForm' = [createForm EXCEPT !.isSubmitting = TRUE,
                              !.pc = IF createForm.uploaded THEN "insert"
                                     ELSE "upload"]
  /\ UNCHANGED <<dash, issued, profileForm, notG>>

\* uploadImagesToStorage replies: a failure is shown in uploadProgress,
\* rethrown and shown again by submitExperience's catch.
UploadReply(o) ==
  /\ createForm.pc = "upload"
  /\ IF o = "ok"
     THEN /\ createForm' = [createForm EXCEPT !.uploaded = TRUE,
                                              !.pc = "insert"]
          /\ shownText' = shownText
     ELSE /\ createForm' = [createForm EXCEPT !.pc = "idle",
                                              !.isSubmitting = FALSE]
          /\ shownText' = shownText \cup {WithErrorMessage("Upload failed: "),
                                          WithErrorMessage("Error: ")}
  /\ UNCHANGED <<dash, issued, profileForm, notG>>

\* The insert into experiences replies.
InsertReply(o) ==
  /\ createForm.pc = "insert"
  /\ IF o = "ok"
     THEN /\ createForm' = [createForm EXCEPT !.rows = @ + 1,
                                              !.pc = "children"]
          /\ shownText' = shownText
     ELSE /\ createForm' = [createForm EXCEPT !.pc = "idle",
                                              !.isSubmitting = FALSE]
          /\ shownText' = shownText \cup {WithErrorMessage("Error: ")}
  /\ UNCHANGED <<dash, issued, profileForm, notG>>

\* The experience_category and image inserts reply: their error results are
\* ignored or logged, a rejection goes to the catch; then the success
\* message, the delayed reset and `finally`.
ChildrenReply(o) ==
  /\ createForm.pc = "children"
  /\ IF o = "throw"
     THEN /\ createForm' = [createForm EXCEPT !.pc = "idle",
                                              !.isSubmitting = FALSE]
          /\ shownText' = shownText \cup {WithErrorMessage("Error: ")}
     ELSE /\ createForm' = [createForm EXCEPT !.pc = "idle",
                              !.isSubmitting = FALSE, !.timers = @ + 1]
          /\ shownText' = shownText \cup {Static("Experience saved")}
  /\ UNCHANGED <<dash, issued, profileForm, notG>>

\* The 1200 ms timer: resetForm(), loadExperiences(), showSection.
ResetTimerFires ==
  /\ createForm.timers > 0
  /\ dash.pc \in {"ready", "reload"}
  /\ createForm' = [createForm EXCEPT !.timers = @ - 1, !.filled = FALSE,
                                      !.uploaded = FALSE, !.rows = 0]
  /\ dash' = [dash EXCEPT !.pc = "reload"]
  /\ issued' = issued \cup {"experiences"}
  /\ UNCHANGED <<shownText, profileForm, notG>>

\* What the file input of the profile form holds.
Logos == {"none", "badType", "tooLarge", "good"}

\* handleBusinessProfileSave's `finally`.
ProfileNoFinally(f) == [f EXCEPT !.pc = "idle"]
ProfileFinally(f) == [f EXCEPT !.pc = "idle", !.isSavingProfile = FALSE]

\* The profile form is submitted: handleBusinessProfileSave up to its first
\* await.
ProfileSave(logo) ==
  /\ FormUsable
  /\ IF ~dash.currentBusiness
     THEN /\ profileForm' = profileForm
          /\ shownText' = shownText \cup
                            {Static("Business record not found.")}
     ELSE IF profileForm.isSavingProfile
     THEN /\ profileForm' = profileForm
          /\ shownText' = shownText
     ELSE IF logo \in {"badType", "tooLarge"}
     THEN /\ profileForm' =
               ProfileFinally([profileForm EXCEPT !.isSavingProfile = TRUE])
          /\ shownText' = shownText \cup
                            {Static("Saving profile..."),
                             Static(IF logo = "badType"
                                    THEN "Logo must be JPG, PNG, or WebP."
                                    ELSE "Logo too large. Max 5MB.")}
     ELSE /\ profileForm' =
               [profileForm EXCEPT !.isSavingProfile = TRUE,
                                   !.pc = IF logo = "good" THEN "upload"
                                          ELSE "update"]
          /\ shownText' = shownText \cup {Static("Saving profile...")}
  /\ UNCHANGED <<dash, createForm, issued, notG>>

\* The logo upload replies.
LogoUploaded(o) ==
  /\ profileForm.pc = "upload"
  /\ IF o = "ok"
     THEN /\ profileForm' = [profileForm EXCEPT !.pc = "update"]
          /\ shownText' = shownText
     ELSE /\ profileForm' = ProfileFinally(profileForm)
          /\ shownText' = shownText \cup
                            {WithErrorMessage("Error saving profile: ")}
  /\ UNCHANGED <<dash, createForm, issued, notG>>

\* The update of table business replies.
ProfileUpdated(o) ==
  /\ profileForm.pc = "update"
  /\ IF o = "ok"
     THEN /\ profileForm' = ProfileFinally(profileForm)
          /\ shownText' = shownText \cup {Static("Profile updated!")}
     ELSE /\ profileForm' = ProfileFinally(profileForm)
          /\ shownText' = shownText \cup
                            {WithErrorMessage("Error saving profile: ")}
  /\ UNCHANGED <<dash, createForm, issued, notG>>

\* -------------------------------------------------------------------------
\* H. Overlapping result loads (finder.js refreshMatches, experiences.js
\*    loadExperiences)
\* -------------------------------------------------------------------------

ListPages == {"finder", "experiences"}

\* Most result loads started on one page load.
MaxLoads == 3

NoReply == [filters |-> "", outcome |-> ""]

\* control: the county the controls show; loads: the calls awaiting their
\* reply, each with the filters it read before its await; started: calls
\* made so far; container: what the result container holds; lastReply: the
\* reply that arrived last.
Overlap0 == [page |-> "none", control |-> "", loads |-> {}, started |-> 0,
             container |-> [kind |-> "markup", filters |-> ""],
             lastReply |-> NoReply]

OffH == overlap = Overlap0

\* refreshMatches / loadExperiences up to the first await: the loading text,
\* then the filters read from the state or the inputs.
StartLoad(o, county) ==
  [o EXCEPT !.control = county,
            !.loads = @ \cup {[seq |-> o.started + 1, filters |-> county]},
            !.started = @ + 1,
            !.container = [kind |-> "loading", filters |-> ""]]

\* DOMContentLoaded of a list page: its first load, with nothing selected.
OpenListPage(pg) ==
  /\ overlap.page = "none"
  /\ overlap' = StartLoad([Overlap0 EXCEPT !.page = pg], "")
  /\ UNCHANGED notH

\* A chip or select of the finder is changed, or the inputs of the
\* experiences page are changed and Apply is clicked: a new call, whatever
\* is in flight.
PickFilter(county) ==
  /\ overlap.page # "none"
  /\ overlap.started < MaxLoads
  /\ county # overlap.control
  /\ overlap' = StartLoad(overlap, county)
  /\ UNCHANGED notH

\* A reply is rendered only when it answers the call made last.
RendersOnlyLatest(r, started) == r.seq = started

\* Whether the code after the await writes the reply of call r into the
\* container: it does, with no look at the calls made since.
RendersReply(r, started) == TRUE

\* What a reply makes of the container.
ContainerFor(filters, o) ==
  IF o = "ok" THEN [kind |-> "cards", filters |-> filters]
  ELSE [kind |-> "error", filters |-> ""]

\* The reply to one of the calls in flight arrives, in any order.
LoadReply(r, o) ==
  /\ r \in overlap.loads
  /\ overlap' = [overlap EXCEPT
       !.loads = @ \ {r},
       !.container = IF RendersReply(r, overlap.started)
                     THEN ContainerFor(r.filters, o) ELSE @,
       !.lastReply = [filters |-> r.filters, outcome |-> o]]
  /\ UNCHANGED notH

\* -------------------------------------------------------------------------
\* I. Overlapping favorite toggles on the user dashboard (user.js)
\* -------------------------------------------------------------------------

\* Most clicks on the heart button that are followed.
MaxToggles == 3

\* unique: whether the favorite table refuses a second row of the pair (its
\* schema is not part of the repository); rows: its rows of the pair; local:
\* the id is in favoriteExperienceIds; card: the card is on the page; calls:
\* the store calls in flight; clicks: clicks so far.
Toggles0(unique) ==
  [on |-> FALSE, unique |-> unique, rows |-> 0, local |-> FALSE,
   card |-> FALSE, calls |-> {}, clicks |-> 0]

OffI == toggles = Toggles0(FALSE)

\* A call on its way to the store.
Sent(id, kind) ==
  [id |-> id, kind |-> kind, phase |-> "sent", result |-> "", found |-> FALSE]

\* The dashboard has loaded with the experience among the favorites.
OpenFavorites(unique) ==
  /\ ~toggles.on
  /\ toggles' = [Toggles0(unique) EXCEPT !.on = TRUE, !.rows = 1,
                                         !.local = TRUE, !.card = TRUE]
  /\ UNCHANGED notI

\* The heart button: toggleFavorite up to its store call, whatever earlier
\* toggle is still in flight.
HeartClick ==
  /\ toggles.on /\ toggles.card
  /\ toggles.clicks < MaxToggles
  /\ toggles' = [toggles EXCEPT
       !.clicks = @ + 1,
       !.calls = @ \cup {Sent(toggles.clicks + 1, ToggleOp(toggles.local))}]
  /\ UNCHANGED notI

\* The store runs a call: a delete removes the rows of the pair, an insert
\* adds one unless the table refuses it, the read of loadFavorites sees
\* whether there is a row.
StoreRuns(c, o) ==
  /\ c \in toggles.calls /\ c.phase = "sent"
  /\ LET refused == c.kind = "insert" /\ toggles.unique /\ toggles.rows > 0
         res == IF o = "ok" /\ refused THEN "error" ELSE o
     IN toggles' = [toggles EXCEPT
          !.rows = IF res # "ok" THEN @
                   ELSE IF c.kind = "delete" THEN 0
                   ELSE IF c.kind = "insert" THEN @ + 1 ELSE @,
          !.calls = (@ \ {c}) \cup
                      {[c EXCEPT !.phase = "answered", !.result = res,
                                 !.found = toggles.rows > 0]}]
  /\ UNCHANGED notI

\* The page receives a reply.  A toggle's store call that succeeded edits the
\* local set and calls loadFavorites; loadFavorites replaces the set and the
\* list by what it read, and shows its error otherwise.
ReplyArrives(c) ==
  /\ c \in toggles.calls /\ c.phase = "answered"
  /\ toggles' =
       IF c.kind = "read"
       THEN [toggles EXCEPT
               !.calls = @ \ {c},
               !.local = IF c.result = "ok" THEN c.found ELSE @,
               !.card = c.result = "ok" /\ c.found]
       ELSE IF c.result = "ok"
       THEN [toggles EXCEPT
               !.calls = (@ \ {c}) \cup {Sent(c.id, "read")},
               !.local = LocalAfter(IF @ THEN {"e"} ELSE {},
                                    c.kind, "e", "ok") # {}]
       ELSE [toggles EXCEPT !.calls = @ \ {c}]
  /\ UNCHANGED notI

\* -------------------------------------------------------------------------
\* J. Automatic redirects after sign-in (auth.js, business.js, admin.js,
\*    user.js)
\* -------------------------------------------------------------------------

RoutePages == {"login", "business", "admin", "user"}
AccountRoles == {"user", "business", "admin"}

\* Most redirects that are counted.
MaxHops == 5

\* role: users.role of the signed-in identity; bizRow: whether it has a row
\* in table business; page: the page being loaded; loaded: its load handler
\* has ended without a redirect; hops: redirects so far; failed: a platform
\* call has failed on the way.
Route0 == [role |-> "user", bizRow |-> FALSE, page |-> "none",
           loaded |-> FALSE, hops |-> 0, failed |-> FALSE]

OffJ == route = Route0

\* auth.js checkIfAlreadyLoggedIn / redirectToDashboard: where the login page
\* sends a browser that is signed in ("" for nowhere).
LoginTarget(role, os) ==
  IF os.getUser # "ok" THEN ""
  ELSE IF os.role # "ok" THEN "user"
  ELSE IF role = "admin" THEN "admin"
  ELSE IF role = "business" THEN "business"
  ELSE "user"

\* business.js checkAuth.  .single() on table business answers a missing row
\* with an error result.
BusinessTarget(role, bizRow, os) ==
  IF os.getUser # "ok" \/ os.role # "ok" THEN "login"
  ELSE IF role # "business" THEN role
  ELSE IF os.business # "ok" \/ ~bizRow THEN "login"
  ELSE ""

\* admin.js checkAuth.
AdminTarget(role, os) ==
  IF os.getUser # "ok" \/ os.role # "ok" THEN "login"
  ELSE IF role # "admin" THEN role
  ELSE ""

\* user.js DOMContentLoaded: a rejection ends the handler, an error result
\* leaves no user.
UserTarget(os) == IF os.getUser = "error" THEN "login" ELSE ""

RedirectTarget(r, os) ==
  CASE r.page = "login"    -> LoginTarget(r.role, os)
    [] r.page = "business" -> BusinessTarget(r.role, r.bizRow, os)
    [] r.page = "admin"    -> AdminTarget(r.role, os)
    [] r.page = "user"     -> UserTarget(os)

\* The calls the page's check made before it decided.
CallsMade(r, os) ==
  {os.getUser}
    \cup (IF r.page # "user" /\ os.getUser = "ok" THEN {os.role} ELSE {})
    \cup (IF r.page = "business" /\ os.getUser = "ok" /\ os.role = "ok"
             /\ r.role = "business" THEN {os.business} ELSE {})

\* The browser, signed in, opens a page.
Arrive(pg, role, bizRow) ==
  /\ route.page = "none"
  /\ role = "business" \/ ~bizRow
  /\ route' = [Route0 EXCEPT !.role = role, !.bizRow = bizRow, !.page = pg]
  /\ UNCHANGED notJ

\* The page's load handler runs its check, the calls ending as os says, and
\* stays or sets window.location.href.
LoadPage(os) ==
  /\ route.page # "none" /\ ~route.loaded
  /\ LET target == RedirectTarget(route, os)
         failed == route.failed \/ CallsMade(route, os) # {"ok"} IN
     route' = IF target = ""
              THEN [route EXCEPT !.loaded = TRUE, !.failed = failed]
              ELSE [route EXCEPT !.page = target,
                                 !.hops = IF @ < MaxHops THEN @ + 1 ELSE @,
                                 !.failed = failed]
  /\ UNCHANGED notJ

\* -------------------------------------------------------------------------
\* K. Saving an experience and reviewing it (business.js, admin.js)
\* -------------------------------------------------------------------------

\* e1 is the experience the form creates and edits, e2 one of another
\* business.
ExpIds == {"e1", "e2"}

\* handleFiles' maxFiles.
maxFiles == 5

\* Most files of one selection, most rows kept of table image and of table
\* experience_category for e1, most delayed resets pending at once.
MaxBatch == 2
MaxStored == 5
MaxLinks == 2
MaxResets == 1

\* updated_at: Earlier for a row not written since it was created, Now for
\* what `new Date().toISOString()` gives at a write.
Earlier == 0
Now == 1

NoRow == [status |-> "none", updated_at |-> Earlier]

\* exps: table experiences; links: rows of experience_category for e1;
\* images: rows of image for e1; uploadedImages: the form's images, each
\* entry its isPrimary; createAlert: the kind of message in #createAlert;
\* saved: the row the save behind a success message wrote; dropped: a child
\* call of that save failed; resets: delayed resets pending.
Biz0 == [exps |-> [id \in ExpIds |->
                     IF id = "e2"
                     THEN [status |-> "pending", updated_at |-> Earlier]
                     ELSE NoRow],
         links |-> 0, images |-> <<>>, uploadedImages |-> <<>>,
         isEditMode |-> FALSE, createAlert |-> "", saved |-> "",
         dropped |-> FALSE, resets |-> 0]

OffK == biz = Biz0

\* A selection of files, each of a supported type and size or not.
Batches == UNION {[1..k -> BOOLEAN] : k \in 1..MaxBatch}

\* showAlert('createAlert', ...) with a message of this kind, in place of
\* what was shown.
ShowAlert(b, kind) ==
  [b EXCEPT !.createAlert = kind, !.saved = "", !.dropped = FALSE]

\* `if (!uploadedImages.some(i => i.isPrimary) && uploadedImages.length)
\*    uploadedImages[0].isPrimary = true`
FirstPrimaryIfNone(imgs) ==
  IF imgs # <<>> /\ \A i \in 1..Len(imgs) : ~imgs[i]
  THEN [imgs EXCEPT ![1] = TRUE]
  ELSE imgs

\* handleFiles(files).
HandleFiles(files) ==
  /\ biz' =
       IF Len(biz.uploadedImages) + Len(files) > maxFiles
       THEN ShowAlert(biz, "error")
       ELSE [(IF \E j \in 1..Len(files) : ~files[j]
              THEN ShowAlert(biz, "error") ELSE biz)
             EXCEPT !.uploadedImages =
                FirstPrimaryIfNone(
                  @ \o [i \in 1..Cardinality({j \in 1..Len(files) : files[j]})
                          |-> FALSE])]
  /\ UNCHANGED notK

\* setPrimaryImage(index), from the button of a preview.
SetPrimaryImage(index) ==
  /\ index \in 1..Len(biz.uploadedImages)
  /\ ~biz.uploadedImages[index]
  /\ biz' = [biz EXCEPT !.uploadedImages =
                          [i \in 1..Len(@) |-> i = index]]
  /\ UNCHANGED notK

\* uploadedImages.splice(index, 1)
Splice(imgs, index) ==
  SubSeq(imgs, 1, index - 1) \o SubSeq(imgs, index + 1, Len(imgs))

\* removeImage(index), from the button of a preview.
RemoveImage(index) ==
  /\ index \in 1..Len(biz.uploadedImages)
  /\ biz' = [biz EXCEPT !.uploadedImages =
                          FirstPrimaryIfNone(Splice(@, index))]
  /\ UNCHANGED notK

\* resetForm().
FormReset(b) ==
  [ShowAlert(b, "") EXCEPT !.uploadedImages = <<>>, !.isEditMode = FALSE]

\* showSection('create') outside edit mode.
ResetForm ==
  /\ ~biz.isEditMode
  /\ biz' = FormReset(biz)
  /\ UNCHANGED notK

\* The 1200 ms timer of a successful save.
ResetTimer ==
  /\ biz.resets > 0
  /\ biz' = [FormReset(biz) EXCEPT !.resets = @ - 1]
  /\ UNCHANGED notK

\* editExperience(e1) from the card of a listed experience; o is how the
\* category lookup ends.  The images are those loadExperiences listed, in
\* display order (the rows the form writes all carry one).
EditExperience(o) ==
  /\ biz.exps["e1"].status # "none"
  /\ biz' =
       IF o = "throw"
       THEN [biz EXCEPT !.isEditMode = TRUE]
       ELSE [ShowAlert(biz, "info") EXCEPT
               !.isEditMode = TRUE,
               !.uploadedImages =
                  LET sorted == SortByDisplayOrder(biz.images) IN
                  FirstPrimaryIfNone(
                    [i \in 1..Len(sorted) |-> sorted[i].is_primary])]
  /\ UNCHANGED notK

\* imageUrls.map((url, index) => ({ is_primary: index === 0,
\*                                  display_order: index }))
ImageRecords(n) ==
  [i \in 1..n |-> [image_url |-> "a.png", is_primary |-> i = 1,
                   display_order |-> i - 1]]

\* The status a save writes.
WrittenApproved(status) == IF status = "pending" THEN "approved" ELSE status
Written(status) == status

\* How the calls of one save end, in their order; a call after the one that
\* ended the save is never made and counts as "ok" here.
CallOrder == <<"upload", "row", "catDelete", "catInsert", "imgDelete",
               "imgInsert">>
Ends(call, o) == IF call \in {"upload", "row"} THEN o # "ok" ELSE o = "throw"
SaveOutcomes ==
  {os \in [{CallOrder[i] : i \in 1..Len(CallOrder)} -> Outcomes] :
     \A i, j \in 1..Len(CallOrder) :
       (i < j /\ Ends(CallOrder[i], os[CallOrder[i]]))
         => os[CallOrder[j]] = "ok"}

\* The child calls of a save up to the first that rejects; an error result
\* changes nothing and is passed over.
ChildRejects(os, edit) ==
  \/ edit /\ os.catDelete = "throw"
  \/ os.catInsert = "throw"
  \/ edit /\ os.catDelete # "throw" /\ os.catInsert # "throw"
          /\ os.imgDelete = "throw"
  \/ os.imgInsert = "throw"

LinksAfter(n, os, edit) ==
  LET kept == IF edit /\ os.catDelete = "ok" THEN 0 ELSE n IN
  IF edit /\ os.catDelete = "throw" THEN n
  ELSE IF os.catInsert = "ok" THEN kept + 1 ELSE kept

ImagesAfter(images, n, os, edit) ==
  LET kept == IF edit /\ os.imgDelete = "ok" THEN <<>> ELSE images IN
  IF (edit /\ os.catDelete = "throw") \/ os.catInsert = "throw"
     \/ (edit /\ os.imgDelete = "throw")
  THEN images
  ELSE IF os.imgInsert = "ok" THEN kept \o ImageRecords(n) ELSE kept

ChildFails(os, edit) ==
  \/ edit /\ (os.catDelete # "ok" \/ os.imgDelete # "ok")
  \/ os.catInsert # "ok" \/ os.imgInsert # "ok"

\* saveDraft / handleSubmitForApproval: submitExperience(status) with the
\* required fields filled in or not, its calls ending as os says (the two
\* deletes are calls of the edit branch only, and a form that fails the
\* validation makes no call); then the success message and the delayed
\* reset, or the catch.
SubmitExperience(status, valid, os) ==
  /\ biz.resets < MaxResets
  /\ LET edit == biz.isEditMode
         fresh == ~edit /\ biz.exps["e1"].status = "none"
         row == [status |-> Written(status), updated_at |-> Now]
         linked == LinksAfter(biz.links, os, edit)
         stored == ImagesAfter(biz.images, Len(biz.uploadedImages), os, edit)
         done == [ShowAlert(biz, "success") EXCEPT !.resets = @ + 1] IN
     /\ linked <= MaxLinks /\ Len(stored) <= MaxStored
     /\ edit \/ (os.catDelete = "ok" /\ os.imgDelete = "ok")
     /\ (valid /\ biz.uploadedImages # <<>>)
          \/ \A i \in 1..Len(CallOrder) : os[CallOrder[i]] = "ok"
     /\ biz' =
          IF ~valid \/ biz.uploadedImages = <<>> \/ os.upload # "ok"
             \/ os.row # "ok"
          THEN ShowAlert(biz, "error")
          ELSE IF ~edit /\ ~fresh
          THEN IF ChildRejects(os, FALSE) THEN ShowAlert(biz, "error")
               ELSE [done EXCEPT !.saved = "other"]
          ELSE [(IF ChildRejects(os, edit) THEN ShowAlert(biz, "error")
                 ELSE [done EXCEPT !.saved = "e1",
                                   !.dropped = ChildFails(os, edit)])
                EXCEPT !.exps["e1"] = row, !.links = linked,
                       !.images = stored]
  /\ UNCHANGED notK

ReviewStatuses == {"approved", "rejected"}

\* admin.js approveExperience / rejectExperience on a listed experience,
\* the dialog confirmed: `update({ status, updated_at }).eq('experience_id',
\* id)`.
Review(id, status, o) ==
  /\ biz.exps[id].status # "none"
  /\ biz.exps[id] # [status |-> status, updated_at |-> Now]
  /\ biz' = IF o = "ok"
            THEN [biz EXCEPT !.exps[id] =
                               [@ EXCEPT !.status = status,
                                         !.updated_at = Now]]
            ELSE biz
  /\ UNCHANGED notK

\* -------------------------------------------------------------------------
\* L. The admin dashboard's sections (admin.js)
\* -------------------------------------------------------------------------

Sections == {"dashboard", "experiences", "businesses", "users"}

\* location.hash: none, one per section, and two that name no section.
Hashes == {"", "#dashboard", "#experiences", "#businesses", "#users",
           "#Users", "#settings"}

NoSection == "<null>"

\* Most hashchange events waiting for their handler.
MaxEvents == 2

\* hash: location.hash; visible: the sections without class hidden; pc:
\* whether the load handler has bound the hashchange listener and shown the
\* initial section; queued: hashchange events not yet handled; threw: a
\* handler ended in a TypeError.
Admin0 == [hash |-> "", visible |-> {"dashboard"}, pc |-> "loading",
           queued |-> 0, threw |-> FALSE]

OffL == admin = Admin0

HashOf(section) ==
  CASE section = "dashboard"   -> "#dashboard"
    [] section = "experiences" -> "#experiences"
    [] section = "businesses"  -> "#businesses"
    [] section = "users"       -> "#users"

\* getSectionFromHash(): the section the hash names, null for any other.
GetSectionFromHash(h) ==
  IF \E sec \in Sections : HashOf(sec) = h
  THEN CHOOSE sec \in Sections : HashOf(sec) = h
  ELSE NoSection

\* getSectionFromHash that falls back to the dashboard.
GetSectionOrDashboard(h) ==
  IF GetSectionFromHash(h) = NoSection THEN "dashboard"
  ELSE GetSectionFromHash(h)

\* showSection(section): every section hidden, then the one named shown;
\* null has no element, and `section.charAt` then throws.
ShowSection(a, section) ==
  [a EXCEPT !.visible = IF section \in Sections THEN {section} ELSE {},
            !.threw = @ \/ section = NoSection]

\* location.hash is set to h: the hashchange event is queued when a
\* listener is bound.
HashSet(a, h) ==
  [a EXCEPT !.hash = h,
            !.queued = IF a.pc = "ready" THEN @ + 1 ELSE @]

\* The DOMContentLoaded handler gets past its awaits: binds the hashchange
\* listener and shows the initial section.
AdminLoaded ==
  /\ admin.pc = "loading"
  /\ admin' = ShowSection([admin EXCEPT !.pc = "ready"],
                          GetSectionOrDashboard(admin.hash))
  /\ UNCHANGED notL

\* A nav link is clicked: setHash(section).
AdminNavClick(section) ==
  /\ admin.queued < MaxEvents
  /\ admin' = IF admin.hash # HashOf(section)
              THEN HashSet(admin, HashOf(section))
              ELSE ShowSection(admin, section)
  /\ UNCHANGED notL

\* The hash changes in the address bar (typed, a link, back and forward).
AddressBar(h) ==
  /\ admin.queued < MaxEvents
  /\ h # admin.hash
  /\ admin' = HashSet(admin, h)
  /\ UNCHANGED notL

\* The hashchange listener runs: showSection(getSectionFromHash()).
HashChange ==
  /\ admin.queued > 0
  /\ admin' = ShowSection([admin EXCEPT !.queued = @ - 1],
                          GetSectionFromHash(admin.hash))
  /\ UNCHANGED notL

\* -------------------------------------------------------------------------
\* Specifications
\* -------------------------------------------------------------------------

InitBudget ==
  /\ OffB
  /\ OffC
  /\ OffE
  /\ OffF
  /\ OffG
  /\ OffH
  /\ OffI
  /\ OffJ
  /\ OffK
  /\ OffL
  /\ probe \in [page : BudgetPages, price : 0..MaxPrice,
                tried : {{}}, accepted : {{}}]

NextBudget == \E b \in Buckets : ProbeBucket(b)

SpecBudget == InitBudget /\ [][NextBudget]_vars

\* The browser is pointed at a page: its address is typed, a link is
\* followed, or the page is reloaded.
Navigate ==
  \/ OpenFinder
  \/ \E u \in Urls, co \in BOOLEAN, cy \in BOOLEAN :
       OpenExperiences(u, co, cy)
  \/ \E id \in Exp \cup {"unknown"} : OpenDetail(id)
  \/ OpenUserDashboard

NextPages ==
  \/ Navigate
  \/ \E l \in TypeLabels : PickType(l)
  \/ PickUxChip
  \/ \E c \in Counties \cup {""} : SelectCounty(c)
  \/ \E b \in Buckets \cup {""} : SelectBudget(b)
  \/ ResetFinder
  \/ \E co \in BOOLEAN, cy \in BOOLEAN : SeeMatches(co, cy)
  \/ \E o \in Outcomes : FinderLinkReply(o)
  \/ \E o \in Outcomes : FinderMainReply(o)
  \/ \E c \in ControlValues : ApplyFilters(c)
  \/ ClearFilters
  \/ \E o \in Outcomes : ExperiencesLinkReply(o)
  \/ \E o \in Outcomes : ExperiencesMainReply(o)
  \/ \E id \in Exp : ViewCard(id)
  \/ \E o \in Outcomes : DetailReply(o)
  \/ \E o \in Outcomes : UserAuthReply(o)
  \/ \E o \in Outcomes : UserInfoReply(o)
  \/ \E o \in Outcomes : FavRowsReply(o)
  \/ \E o \in Outcomes : FavExpsReply(o)
  \/ \E e \in Exp : ToggleClick(e)
  \/ SaveClick
  \/ \E o \in Outcomes : ToggleReply(o)

\* The store a page load can find: the fixed rows and every row "v", the
\* signed-in user's favorites with at most one row per experience.
InitPages ==
  /\ probe = [page |-> "finder", price |-> 0, tried |-> {}, accepted |-> {}]
  /\ identity \in {"", "u1"}
  /\ \E row \in VaryingRows :
       experiences = [e \in Exp |-> IF e = "v" THEN row ELSE FixedRows[e]]
  /\ \E vl \in VaryingLinks : links = FixedLinks \cup vl
  /\ favorite = [e \in Exp |-> IF identity # "" /\ e \in {"f1", "v"} THEN 1 ELSE 0]
  /\ page = "login"
  /\ state = FinderState0
  /\ controls = Controls0
  /\ req = Req0
  /\ results = Results0
  /\ favoriteExperienceIds = {}
  /\ favoritesList = Results0
  /\ togHist = <<>>
  /\ favShown = "markup"
  /\ isFavorited = FALSE
  /\ OffC
  /\ OffE
  /\ OffF
  /\ OffG
  /\ OffH
  /\ OffI
  /\ OffJ
  /\ OffK
  /\ OffL

SpecPages == InitPages /\ [][NextPages]_vars

NextMetrics ==
  \/ Tick
  \/ OpenLanding
  \/ \E o \in Outcomes : LandingSessionReply(o)
  \/ \E e \in MExp, r \in BOOLEAN, u \in BOOLEAN : OpenMetricsDetail(e, r, u)
  \/ BookingClick
  \/ \E o \in Outcomes : DetailSessionReply(o)
  \/ \E o \in Outcomes : GetUserReply(o)
  \/ \E o \in Outcomes : EventInsertReply(o)

\* A browser with empty local storage and an empty event_metric table.
InitMetrics ==
  /\ probe = [page |-> "finder", price |-> 0, tried |-> {}, accepted |-> {}]
  /\ OffB
  /\ OffC
  /\ OffE
  /\ OffF
  /\ OffG
  /\ OffH
  /\ OffI
  /\ OffJ
  /\ OffK
  /\ OffL

SpecMetrics == InitMetrics /\ [][NextMetrics]_vars

NextNav ==
  \/ \E pg \in NavPages : OpenNavPage(pg)
  \/ \E o \in Outcomes : LandingBeforeGate(o)
  \/ \E o \in Outcomes : NavGetUserReply(o)
  \/ \E o \in Outcomes : NavRoleReply(o)

\* A visitor who is signed out, or signed in with any role row.
InitNav ==
  /\ probe = [page |-> "finder", price |-> 0, tried |-> {}, accepted |-> {}]
  /\ identity \in {"", "u1"}
  /\ OffBrowsing
  /\ OffC
  /\ roleRow \in (IF identity = "" THEN {""} ELSE Roles)
  /\ navPage = "none"
  /\ nav = NavMarkup
  /\ gate = Gate0
  /\ OffF
  /\ OffG
  /\ OffH
  /\ OffI
  /\ OffJ
  /\ OffK
  /\ OffL

SpecNav == InitNav /\ [][NextNav]_vars

NextRender ==
  \/ \E site \in TextSites, v \in Texts : RenderText(site, v)
  \/ \E pg \in ImagePages, imgs \in ImageLists : RenderImage(pg, imgs)
  \/ \E surface \in PriceSurfaces, min \in Prices, max \in Prices :
       RenderPrice(surface, min, max)

InitRender ==
  /\ probe = [page |-> "finder", price |-> 0, tried |-> {}, accepted |-> {}]
  /\ OffB
  /\ OffC
  /\ OffE
  /\ view = [kind |-> "none"]
  /\ OffG
  /\ OffH
  /\ OffI
  /\ OffJ
  /\ OffK
  /\ OffL

SpecRender == InitRender /\ [][NextRender]_vars

NextDash ==
  \/ \E pg \in DashPages : OpenDashboard(pg)
  \/ \E o \in Outcomes : DashGetUserReply(o)
  \/ \E o \in Outcomes : DashRoleReply(o)
  \/ \E o \in Outcomes : DashBusinessReply(o)
  \/ \E o \in Outcomes : DashFormDataReply(o)
  \/ \E o \in Outcomes : DashExperiencesReply(o)
  \/ \E o \in Outcomes : DashStatsReply(o)
  \/ \E o \in Outcomes : DashWaitlistReply(o)
  \/ DashUnload
  \/ FillForm
  \/ \E status \in {"pending", "draft"} : SubmitClick(status)
  \/ \E o \in Outcomes : UploadReply(o)
  \/ \E o \in Outcomes : InsertReply(o)
  \/ \E o \in Outcomes : ChildrenReply(o)
  \/ ResetTimerFires
  \/ \E logo \in Logos : ProfileSave(logo)
  \/ \E o \in Outcomes : LogoUploaded(o)
  \/ \E o \in Outcomes : ProfileUpdated(o)

\* A visitor who is signed out, or signed in with a users row of any role.
InitDash ==
  /\ probe = [page |-> "finder", price |-> 0, tried |-> {}, accepted |-> {}]
  /\ identity \in {"", "u1"}
  /\ OffBrowsing
  /\ OffC
  /\ roleRow \in (IF identity = "" THEN {""} ELSE Roles \ {""})
  /\ navPage = "none"
  /\ nav = NavMarkup
  /\ gate = Gate0
  /\ OffF
  /\ OffG
  /\ OffH
  /\ OffI
  /\ OffJ
  /\ OffK
  /\ OffL

SpecDash == InitDash /\ [][NextDash]_vars

NextOverlap ==
  \/ \E pg \in ListPages : OpenListPage(pg)
  \/ \E county \in Counties \cup {""} : PickFilter(county)
  \/ \E r \in overlap.loads, o \in Outcomes : LoadReply(r, o)

InitOverlap ==
  /\ probe = [page |-> "finder", price |-> 0, tried |-> {}, accepted |-> {}]
  /\ OffB
  /\ OffC
  /\ OffE
  /\ OffF
  /\ OffG
  /\ OffI
  /\ OffJ
  /\ OffK
  /\ OffL
  /\ overlap = Overlap0

SpecOverlap == InitOverlap /\ [][NextOverlap]_vars

NextToggles ==
  \/ \E unique \in BOOLEAN : OpenFavorites(unique)
  \/ HeartClick
  \/ \E c \in toggles.calls, o \in Outcomes : StoreRuns(c, o)
  \/ \E c \in toggles.calls : ReplyArrives(c)

InitToggles ==
  /\ probe = [page |-> "finder", price |-> 0, tried |-> {}, accepted |-> {}]
  /\ OffB
  /\ OffC
  /\ OffE
  /\ OffF
  /\ OffG
  /\ OffH
  /\ OffJ
  /\ OffK
  /\ OffL
  /\ toggles = Toggles0(FALSE)

SpecToggles == InitToggles /\ [][NextToggles]_vars

CheckOutcomes == [getUser : Outcomes, role : Outcomes, business : Outcomes]

NextRoute ==
  \/ \E pg \in RoutePages, role \in AccountRoles, bizRow \in BOOLEAN :
       Arrive(pg, role, bizRow)
  \/ \E os \in CheckOutcomes : LoadPage(os)

InitRoute ==
  /\ probe = [page |-> "finder", price |-> 0, tried |-> {}, accepted |-> {}]
  /\ OffB
  /\ OffC
  /\ OffE
  /\ OffF
  /\ OffG
  /\ OffH
  /\ OffI
  /\ OffK
  /\ OffL
  /\ route = Route0

\* The browser does open a page and does follow a redirect.
SpecRoute == InitRoute /\ [][NextRoute]_vars /\ WF_vars(NextRoute)

NextBiz ==
  \/ \E files \in Batches : HandleFiles(files)
  \/ \E index \in 1..MaxStored : SetPrimaryImage(index)
  \/ \E index \in 1..MaxStored : RemoveImage(index)
  \/ ResetForm
  \/ ResetTimer
  \/ \E o \in Outcomes : EditExperience(o)
  \/ \E status \in {"draft", "pending"}, valid \in BOOLEAN,
        os \in SaveOutcomes : SubmitExperience(status, valid, os)
  \/ \E id \in ExpIds, status \in ReviewStatuses, o \in Outcomes :
       Review(id, status, o)

InitBiz ==
  /\ probe = [page |-> "finder", price |-> 0, tried |-> {}, accepted |-> {}]
  /\ OffB
  /\ OffC
  /\ OffE
  /\ OffF
  /\ OffG
  /\ OffH
  /\ OffI
  /\ OffJ
  /\ OffL
  /\ biz = Biz0

SpecBiz == InitBiz /\ [][NextBiz]_vars

NextAdmin ==
  \/ AdminLoaded
  \/ \E section \in Sections : AdminNavClick(section)
  \/ \E h \in Hashes : AddressBar(h)
  \/ HashChange

InitAdmin ==
  /\ probe = [page |-> "finder", price |-> 0, tried |-> {}, accepted |-> {}]
  /\ OffB
  /\ OffC
  /\ OffE
  /\ OffF
  /\ OffG
  /\ OffH
  /\ OffI
  /\ OffJ
  /\ OffK
  /\ admin \in {[Admin0 EXCEPT !.hash = h] : h \in Hashes}

SpecAdmin == InitAdmin /\ [][NextAdmin]_vars

\* -------------------------------------------------------------------------
\* Claims
\* -------------------------------------------------------------------------

\* C1: every non-negative min_price is accepted by exactly one of the four
\* buckets on both pages; under_50 rejects 50, and 50_100 accepts 50 and 100.
C1_BucketsPartition ==
  probe.tried = Buckets =>
    /\ Cardinality(probe.accepted) = 1
    /\ (probe.price = 50 => "under_50" \notin probe.accepted)
    /\ (probe.price \in {50, 100} => "50_100" \in probe.accepted)

\* The buckets as the documentation fixes them: under_50 stops short of 50,
\* 50_100 holds both its ends, and the four are mutually exclusive.
DocumentedBucketAccepts(budget, p) ==
  /\ (budget = "under_50" => p < 50)
  /\ (budget = "50_100"   => p >= 50 /\ p <= 100)
  /\ (budget = "100_200"  => p > 100 /\ p < 200)
  /\ (budget = "200_plus" => p >= 200)

\* The approved and published experiences that satisfy every selection of f.
Expected(f) ==
  { e \in Exp :
      /\ Lower(experiences[e].status) = "approved"
      /\ experiences[e].is_published
      /\ (f.categoryId # "" => <<e, f.categoryId>> \in links)
      /\ (f.county # "" => experiences[e].county = f.county)
      /\ (f.budget \in Buckets =>
            \E p \in experiences[e].min_price : DocumentedBucketAccepts(f.budget, p))
      /\ (f.searchText # "" =>
            \/ ILike(experiences[e].title, f.searchText)
            \/ ILike(experiences[e].event_description, f.searchText)) }

\* A list page whose last load has ended in a rendered list.
ListLoaded ==
  /\ page \in {"finder", "experiences"}
  /\ req.pc = "done"
  /\ results.kind \in {"none", "cards"}

\* C2: on the finder, experiences, detail and favorites pages every experience
\* on screen has status "approved" (case-insensitively) and is published.
C2_OnlyApprovedPublished ==
  \A e \in results.ids \cup favoritesList.ids :
    /\ Lower(experiences[e].status) = "approved"
    /\ experiences[e].is_published

\* The favorites list shows a card while the favorited "v" is approved but
\* unpublished and stays off the list.
C2_Witness ==
  /\ page = "user"
  /\ favoritesList.kind = "cards"
  /\ favorite["v"] > 0
  /\ experiences["v"].status = "approved"
  /\ ~experiences["v"].is_published
  /\ "v" \notin favoritesList.ids

\* C3: when a category is selected and the link table holds no experience for
\* it, the load ends with the empty result and the experiences table is not
\* queried in that invocation.
C3_ShortCircuit ==
  (page \in {"finder", "experiences"} /\ req.linked /\ req.ids = {}) =>
    /\ req.pc = "done"
    /\ results.kind = "none"
    /\ req.mainQueries = 0

\* The finder has finished a load for a category without links.
C3_Witness ==
  /\ page = "finder"
  /\ state.type = "Adventure"
  /\ req.linked /\ req.ids = {}
  /\ req.pc = "done"
  /\ results.kind = "none"

\* C4: the experiences a load returns are exactly the approved and published
\* ones that satisfy every selected constraint, the price being inside the
\* selected bucket; the finder returns at most 3 of them.
C4_ExactComposition ==
  ListLoaded =>
    IF page = "experiences"
    THEN results.ids = Expected(req.filters)
    ELSE /\ results.ids \subseteq Expected(req.filters)
         /\ Cardinality(results.ids) =
              IF Cardinality(Expected(req.filters)) < FinderLimit
              THEN Cardinality(Expected(req.filters)) ELSE FinderLimit

\* The last two completed toggles were applied to the same experience.
TwiceInARow ==
  /\ Len(togHist) = 2
  /\ togHist[1].exp = togHist[2].exp

\* C7 as stated: two toggles in a row leave the table and the page's favorite
\* state as they were, and no toggle leaves more than one row.
C7_TwiceRestores ==
  /\ TwiceInARow =>
       /\ togHist[2].rowsAfter = togHist[1].rowsBefore
       /\ togHist[2].hasAfter = togHist[1].hadBefore
  /\ \A i \in 1..Len(togHist) : togHist[i].rowsAfter <= 1

\* C7 amended: a toggle whose store call succeeds flips the pair between
\* absent and present in the table and in the page's state, a toggle whose
\* store call fails leaves both as they were, and no toggle leaves more than
\* one row; so two toggles in a row restore the state only when both calls
\* succeed or both fail.
C7_ToggleFlipsOrKeeps ==
  \A i \in 1..Len(togHist) :
    LET t == togHist[i] IN
      /\ t.rowsAfter <= 1
      /\ IF t.ok
         THEN /\ t.rowsAfter = (IF t.rowsBefore > 0 THEN 0 ELSE 1)
              /\ t.hasAfter = ~t.hadBefore
         ELSE /\ t.rowsAfter = t.rowsBefore
              /\ t.hasAfter = t.hadBefore

\* A toggle whose store call failed was followed by one that succeeded.
C7_Witness ==
  /\ TwiceInARow
  /\ ~togHist[1].ok
  /\ togHist[2].ok

Apart(k) == (onceLog[k][2].at - onceLog[k][1].at) * TickMs

\* Two calls are logged for k and the first was not itself inside the window
\* of an earlier call.
TwoCalls(k) == Len(onceLog[k]) = 2 /\ onceLog[k][1].passed

\* C5 as stated: two calls less than 30 minutes apart insert exactly one row,
\* two calls more than 30 minutes apart insert two, for views and for booking
\* clicks.
C5_ExactlyOncePerWindow ==
  \A k \in EventKinds \X MExp :
    TwoCalls(k) =>
      /\ (Apart(k) < CoolDownMs(30) =>
            onceLog[k][1].rows + onceLog[k][2].rows = 1)
      /\ (Apart(k) > CoolDownMs(30) =>
            onceLog[k][1].rows + onceLog[k][2].rows = 2)

\* C5 amended: of two calls less than 30 minutes apart the second inserts
\* nothing and the first inserts one row if its recording succeeds and none if
\* it fails; two calls 30 minutes or more apart each insert one row if their
\* own recording succeeds and none if it fails; the first call of a kind
\* passes its window check whatever the other kind has recorded.
C5_AtMostOncePerWindow ==
  \A k \in EventKinds \X MExp :
    /\ \A i \in 1..Len(onceLog[k]) :
         onceLog[k][i].rows =
           (IF onceLog[k][i].passed /\ onceLog[k][i].ok THEN 1 ELSE 0)
    /\ (Len(onceLog[k]) = 1 => onceLog[k][1].passed)
    /\ (TwoCalls(k) =>
          (onceLog[k][2].passed <=> Apart(k) >= CoolDownMs(30)))

\* A view whose recording failed is followed, 10 minutes later, by a view
\* that is suppressed: no row for the two.
C5_Witness ==
  \E e \in MExp :
    /\ TwoCalls(<<"view", e>>)
    /\ Apart(<<"view", e>>) = TickMs
    /\ ~onceLog[<<"view", e>>][1].ok
    /\ ~onceLog[<<"view", e>>][2].passed
    /\ onceLog[<<"view", e>>][1].rows + onceLog[<<"view", e>>][2].rows = 0

\* C6: a click on the booking button with a non-empty URL ends with the URL
\* opened, whatever the recording did.
C6_ClickAlwaysOpens ==
  (click.state = "ended" /\ click.url) => click.opened

\* C9: a stored visitor_session_id is never replaced, and every event_metric
\* row carries the stored id.
C9_SessionStable ==
  /\ [][localStorage.visitor_session_id # NoSession =>
          localStorage'.visitor_session_id = localStorage.visitor_session_id]_vars
  /\ [](\A row \in BagToSet(event_metric) :
          row.session_id = localStorage.visitor_session_id)

\* The landing page has loaded again after two rows were recorded under the
\* stored id.
C9_Witness ==
  /\ mpage.name = "landing"
  /\ mreq.pc = "done"
  /\ localStorage.visitor_session_id # NoSession
  /\ BagCardinality(event_metric) >= 2
  /\ \A row \in BagToSet(event_metric) :
       row.session_id = localStorage.visitor_session_id

\* The variant the gate is to show: guest without an identity, business when
\* the looked-up role is 'business', user otherwise.
ExpectedVariant ==
  IF identity = "" THEN "guest"
  ELSE IF gate.lookedUp = "business" THEN "business" ELSE "user"

\* C10: once the gate has finished, the variant displayed is the expected one
\* and no other; after the gate starts no two variants are displayed together.
C10_ExactlyOneVariant ==
  /\ gate.pc = "done" =>
       \A v \in Variants :
         nav[v] # "markup" => (nav[v] = "flex" <=> v = ExpectedVariant)
  /\ Cardinality({v \in Variants : nav[v] = "flex"}) <= 1

\* C11: when an identity is signed in and the role lookup fails (error result
\* or rejection), the gate ends on the user variant and the page's load goes
\* on past the gate.
C11_RoleFailureGivesUser ==
  (identity # "" /\ gate.roleOutcome \in {"error", "throw"}) =>
    /\ gate.pc = "done"
    /\ nav = Only("user")

\* C12: on the detail page a signed-in identity ends in the user or business
\* variant, not guest.
C12_DetailResolvesIdentity ==
  (navPage = "detail" /\ gate.pc = "done" /\ identity # "") =>
    /\ nav["guest"] # "flex"
    /\ nav["user"] = "flex" \/ nav["business"] = "flex"

\* C13: wherever stored text is inserted as HTML it has passed through
\* escapeHtml, and what the page shows is the text itself, no markup.
C13_TextAlwaysEscaped ==
  view.kind = "text" =>
    /\ view.html = EscapeHtml(view.value)
    /\ view.shown = view.value

\* The URLs a page may use for an experience: those of its images that are
\* not empty or null, and the page's placeholder.
UsableUrls(pg, imgs) ==
  ({imgs[i].image_url : i \in 1..Len(imgs)} \ {"", JsNull})
    \cup {Placeholder(pg)}

\* C14: the URL an experience is rendered with is the URL of one of its images
\* or the page's placeholder, never empty or null.
C14_ImageUrlNeverBlank ==
  view.kind = "image" => view.url \in UsableUrls(view.page, view.images)

\* C14 witness: an experience whose flagged image has no URL, rendered.
C14_Witness ==
  /\ view.kind = "image"
  /\ Len(view.images) = 2
  /\ view.images[1].is_primary /\ view.images[1].image_url \in {"", JsNull}
  /\ view.images[2].image_url = "a.png"

\* The image the rule names: the flagged one, else the one with the smallest
\* display order, else none.
RuleImage(imgs) ==
  LET flagged == SelectSeq(SortByDisplayOrder(imgs), LAMBDA i : i.is_primary)
  IN IF flagged # <<>> THEN Head(flagged) ELSE First(SortByDisplayOrder(imgs))

\* C15: every page renders the experience with the flagged image, else the
\* image of smallest display order, else the placeholder.
C15_SameImageOnEveryPage ==
  view.kind = "image" =>
    view.url = OrElse(RuleImage(view.images).image_url, Placeholder(view.page))

\* The three-way rule on the presence of the two values.
RuleForm(min, max) ==
  IF min # NoNumber /\ max # NoNumber THEN "range"
  ELSE IF min # NoNumber THEN "from" ELSE "tbd"

\* C16: every surface's price text follows the three-way rule on presence, a
\* min_price of 0 counting as present.
C16_OnePriceRule ==
  view.kind = "price" => view.text.form = RuleForm(view.min_price, view.max_price)

\* C20: on the landing page a failed visitor_session insert (error result or
\* rejection) does not stop the load: the handler goes on to the categories,
\* the counties and the navigation gate.
C20_TrackingNeverBlocks ==
  (navPage = "landing" /\ gate.session \in {"error", "throw"}) =>
    gate.pc # "dead"

\* C17: no text shown after a failed platform call carries the error's own
\* message.
C17_OnlyStaticMessages ==
  \A t \in shownText : ~t.diagnostic

\* C18: one filled-in create form puts at most one row into experiences
\* before it is reset.
C18_AtMostOneRowPerForm ==
  createForm.rows <= 1

\* The loads that read or write the experiences table.
ExperiencesLoads == {"stats", "experiences"}

\* C19: a dashboard whose check ended in a redirect has issued no data load,
\* and the experiences table is reached only by the identity whose role is
\* the dashboard's.
C19_NoLoadWithoutRole ==
  /\ dash.redirect # "" => issued = {}
  /\ issued \cap ExperiencesLoads # {} =>
       identity # "" /\ roleRow = dash.page

\* C25: while the detail page shows an error instead of a rendered experience,
\* no step sets a de-dup timestamp or inserts an event_metric row.
C25_ViewOnlyWhenRendered ==
  [][(mpage'.name = "detail" /\ ~mpage'.rendered) =>
       /\ localStorage'.stamps = localStorage.stamps
       /\ event_metric' = event_metric]_vars

\* C26: every experience on a rendered finder or experiences list is one the
\* detail page's query finds, so that opening its card renders it.
C26_ListedCanBeOpened ==
  (page \in {"finder", "experiences"} /\ results.kind = "cards") =>
    \A id \in results.ids : DetailRows(id) = {id}

\* C22: nothing discards a stale response: once no load is in flight the
\* container holds what the reply that arrived last produced, whichever call
\* it answered.
C22_LastReplyWins ==
  (overlap.started > 0 /\ overlap.loads = {}) =>
    overlap.container =
      ContainerFor(overlap.lastReply.filters, overlap.lastReply.outcome)

\* C22 witness: all loads have replied and the container shows the results of
\* an earlier selection than the one the controls show.
C22_Witness ==
  /\ overlap.started >= 2 /\ overlap.loads = {}
  /\ overlap.container.kind = "cards"
  /\ overlap.container.filters # overlap.control

\* C23: however favorite toggles of one experience overlap, the table never
\* holds two rows of the pair, and once no call is in flight the page's
\* favorite state says whether there is a row.
C23_OverlapKeepsOneRow ==
  /\ toggles.rows <= 1
  /\ (toggles.on /\ toggles.calls = {}) =>
       (toggles.local <=> toggles.rows > 0)

\* C24: with every platform call succeeding, following the redirects ends on
\* a page that loads without a further redirect.
C24_RedirectsEnd ==
  <>(route.loaded \/ route.failed)

\* C21: a step that changes a row of table experiences either leaves it with
\* status 'draft' or 'pending' (the business dashboard's saves), or leaves it
\* 'approved' or 'rejected' and changes nothing but the status and the update
\* timestamp of that one row (the admin's approve and reject).
C21_StatusWrites ==
  [][\A id \in ExpIds :
       biz'.exps[id] # biz.exps[id] =>
         \/ biz'.exps[id].status \in {"draft", "pending"}
         \/ /\ biz'.exps[id].status \in ReviewStatuses
            /\ biz' = [biz EXCEPT !.exps[id] =
                         [@ EXCEPT !.status = biz'.exps[id].status,
                                   !.updated_at = biz'.exps[id].updated_at]]
            /\ biz'.links = biz.links /\ biz'.images = biz.images]_vars

C21_Witness ==
  /\ biz.exps["e1"].status = "approved"
  /\ biz.exps["e2"].status = "rejected"
  /\ biz.links = 1 /\ Len(biz.images) = 2

Primaries(imgs) == {i \in 1..Len(imgs) : imgs[i].is_primary}

\* C27: behind a success message the saved experience has exactly one
\* category link and at least one image row, exactly one of them primary and
\* that one of display order 0, and no delete or insert of the save failed;
\* and a saved experience is never without category link or images.
C27_SaveKeepsLinkAndImages ==
  /\ (biz.createAlert = "success" /\ biz.saved = "e1") =>
       /\ ~biz.dropped
       /\ biz.links = 1
       /\ Cardinality(Primaries(biz.images)) = 1
       /\ \A i \in Primaries(biz.images) : biz.images[i].display_order = 0
  /\ biz.exps["e1"].status # "none" =>
       (biz.links >= 1 /\ biz.images # <<>>)

\* C28: uploadedImages never holds more than 5 entries and, when it holds
\* any, exactly one of them is the primary.
C28_ImagesBounded ==
  /\ Len(biz.uploadedImages) <= maxFiles
  /\ biz.uploadedImages # <<>> =>
       Cardinality({i \in 1..Len(biz.uploadedImages) :
                      biz.uploadedImages[i]}) = 1

\* C29: whenever no call of submitExperience is in flight isSubmitting is
\* false, and whenever no call of handleBusinessProfileSave is in flight
\* isSavingProfile is false, whichever way the last call ended.
C29_FlagsCleared ==
  /\ createForm.pc = "idle" => ~createForm.isSubmitting
  /\ profileForm.pc = "idle" => ~profileForm.isSavingProfile

C29_Witness ==
  /\ profileForm.pc = "idle"
  /\ {Static("Logo too large. Max 5MB."), Static("Profile updated!"),
      WithErrorMessage("Error saving profile: ")} \subseteq shownText
  /\ createForm.pc = "idle" /\ createForm.rows > 0
  /\ {Static("Please fill in all required fields"),
      WithErrorMessage("Upload failed: ")} \subseteq shownText

\* C30: once the admin dashboard has loaded exactly one section is visible,
\* after every hash change and nav click, whatever the hash.
C30_OneSectionVisible ==
  admin.pc = "ready" => Cardinality(admin.visible) = 1

====
